---- MODULE Spec2Model ----
(***************************************************************************)
(* A model of the signature chain (create / append / merge / getSequence)  *)
(* and of the Team class that wraps it.                                    *)
(*                                                                         *)
(* A hash is a natural number: the index of the link in `minted`, the      *)
(* table of every link ever created.  A signed link carries a fresh        *)
(* timestamp and signature, so it always gets a new hash; a merge link is  *)
(* content-addressed by the two heads it joins, so the same pair of heads  *)
(* gets the same hash on every peer.                                       *)
(***************************************************************************)
EXTENDS Naturals, Integers, Sequences, FiniteSets, TLC

VARIABLES
  minted,    \* Seq of links: minted[h] is the link whose hash is h
  chain,     \* chain[p]: the SignatureChain held by peer p
  state,     \* state[p]: Team.state of peer p's Team instance
  last,      \* the call that has just returned or thrown
  tieSwap,   \* how Array.prototype.sort orders a pair its comparator calls unordered
  conn,      \* conn[p]: the Connection that peer p holds to the other peer
  wire       \* the numbered messages sent and not yet delivered

vars == <<minted, chain, state, last, tieSwap, conn, wire>>

\* ---------------------------------------------------------------- bounds

MaxSigned == 4
MaxMerges == 2
MaxDeepSigned == 5
MaxDeepMerges == 3

\* ---------------------------------------------------------------- universe

Peers == {"alice", "bob"}

\* the peer that creates the chain
Founder == "alice"

GraphPayloads == {"x", "y"}

\* every payload has the same fields; a link's body.payload
\* rnd stands for the random bytes in a payload (fresh keys, ciphertexts); 0 if it has none
\* secretKeys tells whether the member in the payload carries the secret halves of its keys
Payload(userName, roleName, roles, lockboxes, id, rnd) ==
  [userName |-> userName, roleName |-> roleName, roles |-> roles,
   lockboxes |-> lockboxes, id |-> id, rnd |-> rnd, secretKeys |-> FALSE]

NoPayload == Payload("", "", {}, <<>>, 0, 0)

\* the string payloads of buildChain: 'a', 'b', ...
GraphPayload(x) == Payload(x, "", {}, <<>>, 0, 0)

\* ---------------------------------------------------------------- links

NoChain == [root |-> 0, head |-> 0, links |-> <<>>]

HasChain(p) == chain[p].head # 0

RootLink(payload, user, h) ==
  [kind |-> "ROOT", prev |-> 0, body |-> <<>>, type |-> "ROOT",
   payload |-> payload, user |-> user, nonce |-> h]

SignedLink(prev, type, payload, user, h) ==
  [kind |-> "SIGNED", prev |-> prev, body |-> <<>>, type |-> type,
   payload |-> payload, user |-> user, nonce |-> h]

\* hash(link) as a number with an arbitrary but fixed order
LinkHash(h) == (h * 7) % 31

\* [a, b].sort(): the two head hashes in hash order
SortedPair(a, b) == IF LinkHash(a) <= LinkHash(b) THEN <<a, b>> ELSE <<b, a>>

MergeLink(a, b) ==
  [kind |-> "MERGE", prev |-> 0, body |-> SortedPair(a, b), type |-> "MERGE",
   payload |-> NoPayload, user |-> "", nonce |-> 0]

isRootLink(link) == link.kind = "ROOT"
isMergeLink(link) == link.kind = "MERGE"

\* the hash under which `link` is stored: its index in `minted`, or the next free one
HashOf(link) ==
  IF \E h \in 1..Len(minted) : minted[h] = link
  THEN CHOOSE h \in 1..Len(minted) : minted[h] = link
  ELSE Len(minted) + 1

Mint(link) == IF HashOf(link) > Len(minted) THEN Append(minted, link) ELSE minted

NumSigned == Cardinality({h \in 1..Len(minted) : ~isMergeLink(minted[h])})
NumMerges == Cardinality({h \in 1..Len(minted) : isMergeLink(minted[h])})

WithLink(links, h, link) ==
  [k \in DOMAIN links \cup {h} |-> IF k = h THEN link ELSE links[k]]

\* ---------------------------------------------------------------- chain operations

\* chains.create(payload, context)
ChainCreate(payload, user) ==
  LET h == Len(minted) + 1
  IN [root |-> h, head |-> h, links |-> WithLink(<<>>, h, RootLink(payload, user, h))]

\* chains.append(chain, action, context)
ChainAppend(c, type, payload, user) ==
  LET h == Len(minted) + 1
  IN [root |-> c.root, head |-> h,
      links |-> WithLink(c.links, h, SignedLink(c.head, type, payload, user, h))]

\* chains.merge(a, b)
ChainMerge(a, b) ==
  LET link == MergeLink(a.head, b.head)
      h == HashOf(link)
      union == [k \in DOMAIN a.links \cup DOMAIN b.links |->
                  IF k \in DOMAIN a.links THEN a.links[k] ELSE b.links[k]]
  IN [root |-> a.root, head |-> h, links |-> WithLink(union, h, link)]

getHead(c) == c.head
getRoot(c) == c.root

Parents(c, h) ==
  LET link == c.links[h]
  IN IF isMergeLink(link) THEN {link.body[1], link.body[2]}
     ELSE IF isRootLink(link) THEN {}
     ELSE {link.prev}

RECURSIVE getPredecessors(_, _)
getPredecessors(c, h) ==
  LET ps == Parents(c, h) \cap DOMAIN c.links
  IN ps \cup UNION {getPredecessors(c, p) : p \in ps}

\* isPredecessor(chain, a, b): a strictly precedes b
isPredecessor(c, a, b) == a \in getPredecessors(c, b)

\* the nearest link that is, or precedes, both a and b
getCommonPredecessor(c, a, b) ==
  LET upTo(h) == getPredecessors(c, h) \cup {h}
      common == upTo(a) \cap upTo(b)
      nearest == {x \in common : \A y \in common : ~isPredecessor(c, x, y)}
  IN CHOOSE x \in nearest : \A y \in nearest : LinkHash(x) <= LinkHash(y)

\* ---------------------------------------------------------------- getSequence

\* a call either returns a sequence or throws
Threw == [ok |-> FALSE, seq |-> <<>>]
Returned(s) == [ok |-> TRUE, seq |-> s]

\* hash('DETERMINISTIC_SORT', payload) for the payloads of the chain tests
GraphPayloadHash(payload) ==
  CASE payload.userName = "a" -> 4
    [] payload.userName = "x" -> 9
    [] payload.userName = "y" -> 2
    [] OTHER -> 6

\* [a, b].sort(arbitraryDeterministicSort) followed by _a.concat(_b).  The comparator
\* reads a[0].body and b[0].body, so it throws on an empty branch; it never returns 0,
\* so on equal hashes the engine decides which of the two comes first.
trivialResolver(c, a, b) ==
  IF a = <<>> \/ b = <<>> THEN Threw
  ELSE LET ha == GraphPayloadHash(c.links[a[1]].payload)
           hb == GraphPayloadHash(c.links[b[1]].payload)
       IN IF ha > hb THEN Returned(b \o a)
          ELSE IF ha < hb THEN Returned(a \o b)
          ELSE IF tieSwap THEN Returned(b \o a) ELSE Returned(a \o b)

StringHash(str) ==
  CASE str = "alice" -> 2
    [] str = "bob" -> 3
    [] str = "charlie" -> 1
    [] str = "admin" -> 2
    [] str = "manager" -> 1
    [] str = "example.com" -> 4
    [] OTHER -> 0

\* hash('DETERMINISTIC_SORT', payload) of a team action's payload: payloads that carry
\* fresh lockboxes or a fresh invitation never collide, the others hash by content
PayloadHash(payload) ==
  IF payload.rnd # 0 THEN 40 + LinkHash(payload.rnd)
  ELSE IF payload.id # 0 THEN 20 + (payload.id % 17)
  ELSE StringHash(payload.userName) + 5 * StringHash(payload.roleName)

\* the members that the links of a branch remove
RemovedIn(c, branch) ==
  {c.links[branch[i]].payload.userName :
     i \in {j \in DOMAIN branch : c.links[branch[j]].type = "REMOVE_MEMBER"}}

\* the deterministic sort of two members
UserRank(userName) == StringHash(userName)

\* X's removal of Y loses against a concurrent removal of X by Y when X sorts lower
LosesMutualRemoval(c, h, other) ==
  LET link == c.links[h]
  IN /\ link.type = "REMOVE_MEMBER"
     /\ \E i \in DOMAIN other :
          /\ c.links[other[i]].type = "REMOVE_MEMBER"
          /\ c.links[other[i]].user = link.payload.userName
          /\ c.links[other[i]].payload.userName = link.user
          /\ UserRank(link.user) < UserRank(c.links[other[i]].user)

\* the membership resolver: drops the losing one of two mutual removals, then the
\* writes of a member whom the other branch removes, then sorts the two branches by
\* the hash of their first payload
membershipResolver(c, a, b) ==
  LET KeptA(h) == ~LosesMutualRemoval(c, h, b)
      KeptB(h) == ~LosesMutualRemoval(c, h, a)
      a1 == SelectSeq(a, KeptA)
      b1 == SelectSeq(b, KeptB)
      NotRemovedByB(h) == c.links[h].user \notin RemovedIn(c, b1)
      NotRemovedByA(h) == c.links[h].user \notin RemovedIn(c, a1)
      a2 == SelectSeq(a1, NotRemovedByB)
      b2 == SelectSeq(b1, NotRemovedByA)
  IN IF a2 = <<>> \/ b2 = <<>> THEN Returned(a2 \o b2)
     ELSE LET ha == PayloadHash(c.links[a2[1]].payload)
              hb == PayloadHash(c.links[b2[1]].payload)
          IN IF ha > hb THEN Returned(b2 \o a2)
             ELSE IF ha < hb THEN Returned(a2 \o b2)
             ELSE Returned(a2 \o b2)

\* resolver(branchA, branchB)
Resolve(resolver, c, a, b) ==
  IF resolver = "trivial" THEN trivialResolver(c, a, b) ELSE membershipResolver(c, a, b)

\* a.concat(b), where either may stand for a call that threw
Concat(a, b) == IF a.ok /\ b.ok THEN Returned(a.seq \o b.seq) ELSE Threw

\* branch.filter(n => n !== commonPredecessor)
WithoutLink(r, x) ==
  IF r.ok THEN Returned(SelectSeq(r.seq, LAMBDA n : n # x)) ELSE Threw

\* .filter(n => !isMergeLink(n))
WithoutMergeLinks(c, r) ==
  IF r.ok THEN Returned(SelectSeq(r.seq, LAMBDA n : ~isMergeLink(c.links[n]))) ELSE Threw

\* resolver(branchA, branchB) once both branches have been sequenced
resolvedBranches(resolver, c, branchA, branchB) ==
  IF branchA.ok /\ branchB.ok THEN Resolve(resolver, c, branchA.seq, branchB.seq) ELSE Threw

\* branchHeads.find(h => root === h || isPredecessor(chain, root, h)); find returns
\* undefined when there is none, and the head option then takes its default
ourBranchHead(c, root, branchHeads) ==
  IF root = branchHeads[1] \/ isPredecessor(c, root, branchHeads[1]) THEN branchHeads[1]
  ELSE IF root = branchHeads[2] \/ isPredecessor(c, root, branchHeads[2]) THEN branchHeads[2]
  ELSE getHead(c)

RECURSIVE getSequence(_, _, _, _)
RECURSIVE visit(_, _, _, _)
RECURSIVE visitMerge(_, _, _, _, _)

\* each branch is the sequence from the common predecessor to the branch head,
\* without the common predecessor itself
getBranchSequence(c, resolver, commonPredecessor, branchHead) ==
  WithoutLink(getSequence(c, resolver, commonPredecessor, branchHead), commonPredecessor)

\* visit(link): the given link's predecessors, back to `root`
visit(c, resolver, root, h) ==
  IF isRootLink(c.links[h]) \/ h = root THEN Returned(<<>>)
  ELSE IF ~isMergeLink(c.links[h])
  THEN Concat(visit(c, resolver, root, c.links[h].prev), Returned(<<c.links[h].prev>>))
  ELSE visitMerge(c, resolver, root, c.links[h].body,
                  getCommonPredecessor(c, c.links[h].body[1], c.links[h].body[2]))

\* visit(link) for a merge link
visitMerge(c, resolver, root, branchHeads, commonPredecessor) ==
  IF isPredecessor(c, commonPredecessor, root)
  THEN getSequence(c, resolver, root, ourBranchHead(c, root, branchHeads))
  ELSE Concat(Concat(visit(c, resolver, root, commonPredecessor),
                     Returned(<<commonPredecessor>>)),
              resolvedBranches(resolver, c,
                getBranchSequence(c, resolver, commonPredecessor, branchHeads[1]),
                getBranchSequence(c, resolver, commonPredecessor, branchHeads[2])))

getSequence(c, resolver, root, head) ==
  WithoutMergeLinks(c, Concat(visit(c, resolver, root, head), Returned(<<head>>)))

\* getSequence(chain) with the default root, head and resolver
getSequenceDefault(c) == getSequence(c, "trivial", getRoot(c), getHead(c))

\* ---------------------------------------------------------------- team state

Users == {"alice", "bob", "charlie"}

ADMIN == "admin"
MANAGER == "manager"
GUEST == "guest"
RoleNames == {ADMIN, MANAGER}

Host == "example.com"

initialState ==
  [teamName |-> "", members |-> <<>>, roles |-> <<>>, lockboxes |-> <<>>,
   invitations |-> <<>>, removedMembers |-> {}, servers |-> <<>>]

Outcome(ok, err) == [ok |-> ok, err |-> err]

\* ---------------------------------------------------------------- keysets and lockboxes

KeyMeta(type, name, generation) == [type |-> type, name |-> name, generation |-> generation]

TEAM_SCOPE == [type |-> "TEAM", name |-> "TEAM"]
ADMIN_SCOPE == [type |-> "ROLE", name |-> ADMIN]
RoleScope(roleName) == [type |-> "ROLE", name |-> roleName]
MemberScope(userName) == [type |-> "MEMBER", name |-> userName]

\* keysets.create(scope): a new keyset, generation 0
KeysetCreate(scope) == KeyMeta(scope.type, scope.name, 0)

\* the keys a user holds on their own device
UserKeys(userName) == KeysetCreate(MemberScope(userName))

\* lockbox.create(contents, recipientKeys)
LockboxCreate(contents, recipientKeys) == [recipient |-> recipientKeys, contents |-> contents]

\* lockbox.rotate(oldLockbox, newContents): same recipient, contents one generation on
LockboxRotate(oldLockbox, newContents) ==
  [recipient |-> oldLockbox.recipient,
   contents |-> KeyMeta(newContents.type, newContents.name,
                        oldLockbox.contents.generation + 1)]

\* lockbox.open succeeds for the holder of the recipient keyset
RECURSIVE Keyring(_, _)
Keyring(lockboxes, held) ==
  LET opened == {lockboxes[i].contents : i \in {j \in DOMAIN lockboxes : lockboxes[j].recipient \in held}}
  IN IF opened \subseteq held THEN held ELSE Keyring(lockboxes, held \cup opened)

\* ---------------------------------------------------------------- selectors

MemberIndex(s, userName) ==
  {i \in DOMAIN s.members : s.members[i].userName = userName}

hasMember(s, userName) == MemberIndex(s, userName) # {}

\* select.member
member(s, userName) == s.members[CHOOSE i \in MemberIndex(s, userName) :
                                   \A j \in MemberIndex(s, userName) : i <= j]

memberHasRole(s, userName, roleName) ==
  hasMember(s, userName) /\ roleName \in member(s, userName).roles

memberIsAdmin(s, userName) == memberHasRole(s, userName, ADMIN)

hasRole(s, roleName) == \E i \in DOMAIN s.roles : s.roles[i] = roleName

membersInRole(s, roleName) ==
  {s.members[i].userName : i \in {j \in DOMAIN s.members : roleName \in s.members[j].roles}}

admins(s) == membersInRole(s, ADMIN)

hasServer(s, host) == \E i \in DOMAIN s.servers : s.servers[i] = host

\* the public keys the team state lists for the user; a user who is not a member has
\* the keys they were created with
memberKeys(s, userName) ==
  IF hasMember(s, userName) THEN member(s, userName).keys ELSE UserKeys(userName)

\* the keysets of the scope that the user can reach through the lockboxes in state
VisibleKeys(s, userName, scope) ==
  LET own == {KeyMeta("MEMBER", userName, g) : g \in 0..memberKeys(s, userName).generation}
  IN {k \in Keyring(s.lockboxes, own) : k.type = scope.type /\ k.name = scope.name}

\* select.keys throws 'not found' when there is none
hasKeys(s, userName, scope) == VisibleKeys(s, userName, scope) # {}

\* select.keys: the latest generation the user can reach
keys(s, userName, scope) ==
  CHOOSE k \in VisibleKeys(s, userName, scope) :
    \A o \in VisibleKeys(s, userName, scope) : o.generation <= k.generation

\* the latest generation of a scope that any lockbox in state holds
CurrentGeneration(s, scope) ==
  LET gens == {s.lockboxes[i].contents.generation :
                 i \in {j \in DOMAIN s.lockboxes :
                          /\ s.lockboxes[j].contents.type = scope.type
                          /\ s.lockboxes[j].contents.name = scope.name}}
  IN IF gens = {} THEN 0 ELSE CHOOSE g \in gens : \A o \in gens : o <= g

\* select.lockboxesInScope: the lockboxes holding the current keys of the scope
lockboxesInScope(s, scope) ==
  LET Current(lb) == /\ lb.contents.type = scope.type
                     /\ lb.contents.name = scope.name
                     /\ lb.contents.generation = CurrentGeneration(s, scope)
  IN SelectSeq(s.lockboxes, Current)

ScopeOf(k) == [type |-> k.type, name |-> k.name]

\* select.scopesToRotate: the compromised scope and every scope visible from it
scopesToRotate(s, scope) ==
  LET start == {k \in {s.lockboxes[i].recipient : i \in DOMAIN s.lockboxes} :
                  ScopeOf(k) = scope}
      visible == {ScopeOf(k) : k \in Keyring(s.lockboxes, start)} \ {scope}
      First(i) == /\ ScopeOf(s.lockboxes[i].contents) \in visible
                  /\ \A j \in 1..(i - 1) :
                       ScopeOf(s.lockboxes[j].contents) # ScopeOf(s.lockboxes[i].contents)
      firsts == SelectSeq([i \in DOMAIN s.lockboxes |-> i], First)
  IN <<scope>> \o [k \in DOMAIN firsts |-> ScopeOf(s.lockboxes[firsts[k]].contents)]

\* ---------------------------------------------------------------- reducer

AdminOnly ==
  {"ADD_MEMBER", "REMOVE_MEMBER", "ADD_ROLE", "REMOVE_ROLE", "ADD_MEMBER_ROLE",
   "REMOVE_MEMBER_ROLE", "POST_INVITATION", "REVOKE_INVITATION", "ADD_SERVER",
   "REMOVE_SERVER"}

hasInvitationId(s, id) == id \in DOMAIN s.invitations

\* the validators: "" when the link can be applied to the state, else the error
Validate(s, link) ==
  LET pl == link.payload
  IN IF link.type = "ROOT"
     THEN (IF s = initialState THEN "" ELSE "root must be the first link")
     ELSE IF s = initialState THEN "no root"
     ELSE IF link.type \in AdminOnly /\ ~memberIsAdmin(s, link.user) THEN "not admin"
     ELSE IF link.type = "CHANGE_KEYS" /\ ~hasMember(s, link.user) THEN "not a member"
     ELSE IF link.type = "CHANGE_KEYS" /\ link.user # pl.userName THEN "keys not held"
     ELSE IF link.type = "ADD_MEMBER" /\ hasMember(s, pl.userName) THEN "already a member"
     ELSE IF link.type = "REMOVE_MEMBER" /\ ~hasMember(s, pl.userName) THEN "not found"
     ELSE IF link.type = "REMOVE_MEMBER" /\ link.user = pl.userName THEN "cannot remove self"
     ELSE IF link.type = "ADMIT_INVITED_MEMBER" /\ ~hasMember(s, link.user) THEN "not a member"
     ELSE IF link.type = "ADMIT_INVITED_MEMBER" /\ ~hasInvitationId(s, pl.id)
     THEN "no invitation"
     ELSE IF link.type = "ADMIT_INVITED_MEMBER" /\ s.invitations[pl.id].revoked
     THEN "invitation revoked"
     ELSE IF link.type = "ADMIT_INVITED_MEMBER" /\ s.invitations[pl.id].used
     THEN "invitation used"
     ELSE IF link.type = "ADMIT_INVITED_MEMBER" /\ s.invitations[pl.id].userName # pl.userName
     THEN "names do not match"
     ELSE ""

\* a member as the team state lists it: name, public keys, roles
NewMember(userName, roles) ==
  [userName |-> userName, keys |-> UserKeys(userName), roles |-> roles]

WithoutMember(members, userName) ==
  LET Other(m) == m.userName # userName IN SelectSeq(members, Other)

WithMemberRole(members, userName, roleName) ==
  [i \in DOMAIN members |->
     IF members[i].userName = userName
     THEN [members[i] EXCEPT !.roles = members[i].roles \cup {roleName}]
     ELSE members[i]]

WithoutMemberRole(members, userName, roleName) ==
  [i \in DOMAIN members |->
     IF members[i].userName = userName
     THEN [members[i] EXCEPT !.roles = members[i].roles \ {roleName}]
     ELSE members[i]]

WithEntry(f, k, v) == [x \in DOMAIN f \cup {k} |-> IF x = k THEN v ELSE f[x]]

PostedInvitation(pl) ==
  [id |-> pl.id, userName |-> pl.userName, roles |-> pl.roles,
   lockboxes |-> pl.lockboxes, used |-> FALSE, revoked |-> FALSE]

\* the transformers: the state after the link, which has passed validation
Transform(s, link) ==
  LET pl == link.payload
      posted == [s EXCEPT !.lockboxes = s.lockboxes \o pl.lockboxes]
  IN CASE link.type = "ROOT" ->
            [posted EXCEPT !.teamName = pl.roleName,
                           !.members = <<NewMember(pl.userName, {ADMIN})>>,
                           !.roles = <<ADMIN>>]
       [] link.type = "ADD_MEMBER" ->
            [posted EXCEPT !.members = Append(s.members, NewMember(pl.userName, pl.roles))]
       [] link.type = "REMOVE_MEMBER" ->
            [posted EXCEPT !.members = WithoutMember(s.members, pl.userName),
                           !.removedMembers = s.removedMembers \cup {pl.userName}]
       [] link.type = "ADD_ROLE" ->
            [posted EXCEPT !.roles = IF hasRole(s, pl.roleName) THEN s.roles
                                     ELSE Append(s.roles, pl.roleName)]
       [] link.type = "REMOVE_ROLE" ->
            LET Other(r) == r # pl.roleName
                Drop(roles) == roles \ {pl.roleName}
            IN [posted EXCEPT !.roles = SelectSeq(s.roles, Other),
                              !.members = [i \in DOMAIN s.members |->
                                 [s.members[i] EXCEPT !.roles = Drop(s.members[i].roles)]]]
       [] link.type = "ADD_MEMBER_ROLE" ->
            [posted EXCEPT !.members = WithMemberRole(s.members, pl.userName, pl.roleName)]
       [] link.type = "REMOVE_MEMBER_ROLE" ->
            [posted EXCEPT !.members = WithoutMemberRole(s.members, pl.userName, pl.roleName)]
       [] link.type = "POST_INVITATION" ->
            [s EXCEPT !.invitations = WithEntry(s.invitations, pl.id, PostedInvitation(pl))]
       [] link.type = "REVOKE_INVITATION" ->
            [s EXCEPT !.invitations =
               [id \in DOMAIN s.invitations |->
                  IF id = pl.id THEN [s.invitations[id] EXCEPT !.revoked = TRUE]
                  ELSE s.invitations[id]]]
       [] link.type = "ADMIT_INVITED_MEMBER" ->
            [posted EXCEPT !.members = Append(s.members, NewMember(pl.userName, pl.roles)),
                           !.invitations = [s.invitations EXCEPT ![pl.id].used = TRUE]]
       [] link.type = "CHANGE_KEYS" ->
            [posted EXCEPT !.members = [i \in DOMAIN s.members |->
                                 IF s.members[i].userName = pl.userName
                                 THEN [s.members[i] EXCEPT !.keys.generation = @ + 1]
                                 ELSE s.members[i]]]
       [] link.type = "ADD_SERVER" ->
            [posted EXCEPT !.servers = IF hasServer(s, pl.userName) THEN s.servers
                                       ELSE Append(s.servers, pl.userName)]
       [] link.type = "REMOVE_SERVER" ->
            LET Other(h) == h # pl.userName
            IN [posted EXCEPT !.servers = SelectSeq(s.servers, Other)]
       [] OTHER -> s

Rejected(err) == [ok |-> FALSE, err |-> err, state |-> initialState]
Reduced(s) == [ok |-> TRUE, err |-> "", state |-> s]

\* the reducer's result for a link that the validators answered with `err`
validated(s, link, err) == IF err = "" THEN Reduced(Transform(s, link)) ELSE Rejected(err)

\* reducer(state, link): validate, then transform; throws the validation error
reducer(s, link) == validated(s, link, Validate(s, link))

\* sequence.reduce(reducer, initialState)
RECURSIVE Fold(_, _, _, _)
FoldOn(c, seq, i, r) == IF r.ok THEN Fold(c, seq, i + 1, r.state) ELSE r

Fold(c, seq, i, s) ==
  IF i > Len(seq) THEN Reduced(s) ELSE FoldOn(c, seq, i, reducer(s, c.links[seq[i]]))

\* chains.validate(chain): every reference resolves within the chain
ChainValidate(c) ==
  /\ c.root \in DOMAIN c.links
  /\ c.head \in DOMAIN c.links
  /\ \A h \in DOMAIN c.links : Parents(c, h) \subseteq DOMAIN c.links

\* sequence.reduce(reducer, initialState), when getSequence has returned the sequence
reduceSequence(c, sequence) ==
  IF ~sequence.ok THEN Rejected("getSequence threw")
  ELSE Fold(c, sequence.seq, 1, initialState)

\* an updateState that sequences the chain without the membership resolver
updateStateUnresolved(c) ==
  IF ~ChainValidate(c) THEN Rejected("invalid chain")
  ELSE reduceSequence(c, getSequence(c, "trivial", getRoot(c), getHead(c)))

\* Team.updateState: the state to assign, or the error thrown
updateState(c) ==
  IF ~ChainValidate(c) THEN Rejected("invalid chain")
  ELSE reduceSequence(c, getSequence(c, "membership", getRoot(c), getHead(c)))

\* ---------------------------------------------------------------- the chain tests (buildChain)

\* the user who signs every link of the chain tests
defaultContext == "alice"

\* a connection before start(): nothing sent, nothing received, no key agreed
NoProof ==
  [id |-> 0, type |-> "", payload |-> [userName |-> "", keys |-> "", secretKeys |-> FALSE],
   signed |-> [userName |-> "", keys |-> "", secretKeys |-> FALSE]]

NewConnection ==
  [st |-> "idle", secret |-> "", proof |-> NoProof, out |-> 0, expect |-> 0, held |-> {},
   acted |-> <<>>, pending |-> "", challenge |-> 0, verified |-> FALSE, accepted |-> FALSE,
   seed |-> 0, theirSeed |-> 0, sessionKey |-> <<>>, startHead |-> 0, sentHead |-> 0,
   event |-> ""]

GraphInit ==
  /\ minted = <<>>
  /\ chain = [p \in Peers |-> NoChain]
  /\ state = [p \in Peers |-> initialState]
  /\ last = Outcome(TRUE, "")
  /\ tieSwap \in BOOLEAN
  /\ conn = [p \in Peers |-> NewConnection]
  /\ wire = {}

\* var a = create('a', defaultContext)
GraphCreate(p) ==
  /\ \A q \in Peers : ~HasChain(q)
  /\ LET c == ChainCreate(GraphPayload("a"), defaultContext)
     IN /\ chain' = [chain EXCEPT ![p] = c]
        /\ minted' = Mint(c.links[c.head])
  /\ UNCHANGED <<state, last, tieSwap, conn, wire>>

\* appendLink with the new link's prev taken from the root instead of the head
appendLinkFromRoot(p, x) ==
  /\ HasChain(p)
  /\ NumSigned < MaxSigned
  /\ LET c == ChainAppend([chain[p] EXCEPT !.head = chain[p].root], "X",
                          GraphPayload(x), defaultContext)
     IN /\ chain' = [chain EXCEPT ![p] = c]
        /\ minted' = Mint(c.links[c.head])
  /\ UNCHANGED <<state, last, tieSwap, conn, wire>>

\* appendLink(chain, payload)
appendLink(p, x) ==
  /\ HasChain(p)
  /\ NumSigned < MaxSigned
  /\ LET c == ChainAppend(chain[p], "X", GraphPayload(x), defaultContext)
     IN /\ chain' = [chain EXCEPT ![p] = c]
        /\ minted' = Mint(c.links[c.head])
  /\ UNCHANGED <<state, last, tieSwap, conn, wire>>

\* var b1 = clone(a)
GraphClone(p, q) ==
  /\ ~HasChain(p)
  /\ HasChain(q)
  /\ chain' = [chain EXCEPT ![p] = chain[q]]
  /\ UNCHANGED <<minted, state, last, tieSwap, conn, wire>>

\* merge called with the same chain twice: b1 = merge(b1, b1)
GraphMergeSelf(p, q) ==
  /\ HasChain(p) /\ HasChain(q)
  /\ getRoot(chain[p]) = getRoot(chain[q])
  /\ LET c == ChainMerge(chain[p], chain[p])
     IN /\ HashOf(c.links[c.head]) <= Len(minted) \/ NumMerges < MaxMerges
        /\ chain' = [chain EXCEPT ![p] = c]
        /\ minted' = Mint(c.links[c.head])
  /\ UNCHANGED <<state, last, tieSwap, conn, wire>>

\* b1 = merge(b1, b2)
GraphMerge(p, q) ==
  /\ HasChain(p) /\ HasChain(q)
  /\ getRoot(chain[p]) = getRoot(chain[q])
  /\ LET c == ChainMerge(chain[p], chain[q])
     IN /\ HashOf(c.links[c.head]) <= Len(minted) \/ NumMerges < MaxMerges
        /\ chain' = [chain EXCEPT ![p] = c]
        /\ minted' = Mint(c.links[c.head])
  /\ UNCHANGED <<state, last, tieSwap, conn, wire>>

GraphNext ==
  \/ GraphCreate(Founder)
  \/ \E p \in Peers, x \in GraphPayloads : appendLink(p, x)
  \/ \E p, q \in Peers : GraphClone(p, q)
  \/ \E p, q \in Peers : GraphMerge(p, q)

SpecGraph == GraphInit /\ [][GraphNext]_vars

\* appendLink(chain, payload) on graphs of up to MaxDeepSigned signed links
appendLinkDeep(p, x) ==
  /\ HasChain(p)
  /\ NumSigned < MaxDeepSigned
  /\ LET c == ChainAppend(chain[p], "X", GraphPayload(x), defaultContext)
     IN /\ chain' = [chain EXCEPT ![p] = c]
        /\ minted' = Mint(c.links[c.head])
  /\ UNCHANGED <<state, last, tieSwap, conn, wire>>

\* the same calls on deeper graphs: one more link, every link with the same payload
DeepGraphNext ==
  \/ GraphCreate(Founder)
  \/ \E p \in Peers : appendLinkDeep(p, "x")
  \/ \E p, q \in Peers : GraphClone(p, q)
  \/ \E p, q \in Peers : GraphMerge(p, q)

SpecDeepGraph == GraphInit /\ [][DeepGraphNext]_vars

Ids(c) == DOMAIN c.links
SignedIds(c) == {h \in Ids(c) : ~isMergeLink(c.links[h])}
Range(s) == {s[i] : i \in DOMAIN s}
IndexOf(s, x) == CHOOSE i \in DOMAIN s : s[i] = x

\* ---------------------------------------------------------------- claims on the graph

\* C4: with the default resolver, getSequence over a whole graph returns every non-merge
\* link exactly once, no merge link, and every link after all of its predecessors.
C4_SequenceIsTopologicalSort ==
  \A p \in Peers : HasChain(p) =>
    LET c == chain[p]
        r == getSequenceDefault(c)
    IN /\ r.ok
       /\ Range(r.seq) = SignedIds(c)
       /\ Len(r.seq) = Cardinality(SignedIds(c))
       /\ \A i, j \in DOMAIN r.seq : isPredecessor(c, r.seq[i], r.seq[j]) => i < j

\* the two heads joined by the merge link at the head of c are concurrent
HeadJoinsBranches(c) ==
  /\ c.head # 0
  /\ isMergeLink(c.links[c.head])
  /\ LET a == c.links[c.head].body[1]
         b == c.links[c.head].body[2]
     IN a # b /\ ~isPredecessor(c, a, b) /\ ~isPredecessor(c, b, a)

MergePost(a, b, m) ==
  /\ isMergeLink(m.links[m.head])
  /\ Range(m.links[m.head].body) = {a.head, b.head}
  /\ m.head \notin DOMAIN a.links \cup DOMAIN b.links
  /\ DOMAIN m.links = DOMAIN a.links \cup DOMAIN b.links \cup {m.head}
  /\ \A h \in DOMAIN a.links : m.links[h] = a.links[h]
  /\ \A h \in DOMAIN b.links : m.links[h] = b.links[h]
  /\ m.root = a.root /\ m.root = b.root

\* C5: merge(a, b) yields the union of the links of a and b plus one merge link whose
\* body is {head(a), head(b)}; that link is the head, the root is the common root, and
\* every link of a and b is kept as it was.
C5_MergeIsUnionPlusMergeLink ==
  [][\A p, q \in Peers : GraphMerge(p, q) => MergePost(chain[p], chain[q], chain'[p])]_vars

C5_Witness == \E p \in Peers : HeadJoinsBranches(chain[p])

\* C6: after any sequence of create, append and merge the graph has exactly one root and
\* one head, is acyclic, and every link other than the head is reachable from the head.
C6_OneRootOneHeadConnected ==
  \A p \in Peers : HasChain(p) =>
    LET c == chain[p]
    IN /\ {h \in Ids(c) : isRootLink(c.links[h])} = {c.root}
       /\ {h \in Ids(c) : \A k \in Ids(c) : h \notin Parents(c, k)} = {c.head}
       /\ \A h \in Ids(c) : Parents(c, h) \subseteq Ids(c)
       /\ \A h \in Ids(c) : h \notin getPredecessors(c, h)
       /\ getPredecessors(c, c.head) \cup {c.head} = Ids(c)

C6_Witness ==
  \E p \in Peers :
    /\ HeadJoinsBranches(chain[p])
    /\ Cardinality(Ids(chain[p])) >= 5

\* ---------------------------------------------------------------- users

\* a user as the local context holds it: the keys include their secret halves; keys
\* names the owner of the key material
UserWithSecrets(userName) == [userName |-> userName, keys |-> userName, secretKeys |-> TRUE]

\* users.redactUser(user): the same user with public keys only
redactUser(user) == [user EXCEPT !.secretKeys = FALSE]

\* User | Member: what a caller may pass for the user of that name
UserOrMember(userName) == {UserWithSecrets(userName), redactUser(UserWithSecrets(userName))}

\* a payload whose member (or rootMember) is the given object, posted as it is
WithMember(payload, memberObject) ==
  [payload EXCEPT !.userName = memberObject.userName, !.secretKeys = memberObject.secretKeys]

\* ---------------------------------------------------------------- the Team class

HasTeam(p) == HasChain(p)

\* a method that throws before it reaches dispatch
Throws(err) ==
  /\ last' = Outcome(FALSE, err)
  /\ UNCHANGED <<minted, chain, state, tieSwap, conn, wire>>

\* the bytes that make a payload with fresh key material unique
Fresh(lockboxes) == IF lockboxes = <<>> THEN 0 ELSE Len(minted) + 1

\* the end of dispatch: this.chain is assigned before the reducer runs, this.state only
\* if the reducer returns
assign(p, c, r) ==
  /\ minted' = Mint(c.links[getHead(c)])
  /\ chain' = [chain EXCEPT ![p] = c]
  /\ state' = IF r.ok THEN [state EXCEPT ![p] = r.state] ELSE state
  /\ last' = Outcome(r.ok, r.err)
  /\ UNCHANGED <<tieSwap, conn, wire>>

\* the reducer is given the current state and the newly appended head
reduceHead(p, c) == assign(p, c, reducer(state[p], c.links[getHead(c)]))

\* a dispatch that appends the link but never assigns the reducer's result
dispatchKeepsState(p, type, payload) ==
  assign(p, ChainAppend(chain[p], type, payload, p), Reduced(state[p]))

\* a dispatch that appends the link after the root instead of after the head
dispatchOntoRoot(p, type, payload) ==
  reduceHead(p, ChainAppend([chain[p] EXCEPT !.head = chain[p].root], type, payload, p))

\* a dispatch that applies the action without asking the validators
dispatchUnchecked(p, type, payload) ==
  assign(p, ChainAppend(chain[p], type, payload, p),
         Reduced(Transform(state[p], SignedLink(chain[p].head, type, payload, p,
                                                Len(minted) + 1))))

\* Team.dispatch: append the link, then feed the new head to the reducer; when the
\* reducer throws the chain keeps the link and the state keeps its old value
dispatch(p, type, payload) == reduceHead(p, ChainAppend(chain[p], type, payload, p))

\* the end of the constructor: a constructor that throws leaves no Team behind
construct(p, c, r) ==
  /\ minted' = IF r.ok THEN Mint(c.links[getHead(c)]) ELSE minted
  /\ chain' = [chain EXCEPT ![p] = IF r.ok THEN c ELSE chain[p]]
  /\ state' = [state EXCEPT ![p] = IF r.ok THEN r.state ELSE state[p]]
  /\ last' = Outcome(r.ok, r.err)
  /\ UNCHANGED <<tieSwap, conn, wire>>

\* the constructor's this.updateState()
constructFrom(p, c) == construct(p, c, updateState(c))

\* the root link's payload: team name, founding member and their two lockboxes
rootPayload(p, teamLockbox, adminLockbox) ==
  WithMember(Payload(p, "Spies", {}, <<teamLockbox, adminLockbox>>, 0, Len(minted) + 1),
             redactUser(UserWithSecrets(p)))

\* a constructor that posts the team lockbox only
TeamCreateWithoutAdminLockbox(p) ==
  /\ \A q \in Peers : ~HasTeam(q)
  /\ constructFrom(p, ChainCreate(
        Payload(p, "Spies", {}, <<LockboxCreate(KeysetCreate(TEAM_SCOPE), UserKeys(p))>>,
                0, Len(minted) + 1), p))

\* new Team({ teamName, context })
TeamCreate(p) ==
  /\ \A q \in Peers : ~HasTeam(q)
  /\ constructFrom(p, ChainCreate(
        rootPayload(p, LockboxCreate(KeysetCreate(TEAM_SCOPE), UserKeys(p)),
                       LockboxCreate(KeysetCreate(ADMIN_SCOPE), UserKeys(p))), p))

\* new Team({ source, context }), the source being the chain a team member hands to a
\* user it has added
TeamLoad(p, q) ==
  /\ p # q /\ ~HasTeam(p) /\ HasTeam(q)
  /\ hasMember(state[q], p)
  /\ constructFrom(p, chain[q])

\* what Team.merge leaves behind: the merged chain, and the new state if updateState
\* returns
mergedWith(c, myState, r) ==
  [chain |-> c, ok |-> r.ok, err |-> r.err, state |-> IF r.ok THEN r.state ELSE myState]

mergedChain(c, myState) == mergedWith(c, myState, updateState(c))

\* a merge that joins the chains but keeps the state it had
mergedKeepsState(mine, myState, theirs) ==
  mergedWith(ChainMerge(mine, theirs), myState, Reduced(myState))

merged(mine, myState, theirs) == mergedChain(ChainMerge(mine, theirs), myState)

assignMerged(p, m, maxMerges) ==
  /\ HashOf(m.chain.links[m.chain.head]) <= Len(minted) \/ NumMerges < maxMerges
  /\ minted' = Mint(m.chain.links[m.chain.head])
  /\ chain' = [chain EXCEPT ![p] = m.chain]
  /\ state' = [state EXCEPT ![p] = m.state]
  /\ last' = Outcome(m.ok, m.err)
  /\ UNCHANGED <<tieSwap, conn, wire>>

\* Team.merge(theirChain), called when their chain has links that ours has not
merge(p, q, maxMerges) ==
  /\ p # q /\ HasTeam(p) /\ HasTeam(q)
  /\ getHead(chain[q]) \notin DOMAIN chain[p].links
  /\ assignMerged(p, merged(chain[p], state[p], chain[q]), maxMerges)

TeamMerge(p, q) == merge(p, q, MaxMerges)

\* this.keys(scope) for each of the scopes, in order; throws when one is out of reach
CanReach(p, scopes) == \A i \in DOMAIN scopes : hasKeys(state[p], p, scopes[i])

RoleScopes(roles) ==
  (IF ADMIN \in roles THEN <<RoleScope(ADMIN)>> ELSE <<>>)
    \o (IF MANAGER \in roles THEN <<RoleScope(MANAGER)>> ELSE <<>>)

\* Team.createMemberLockboxes(member, roles)
createMemberLockboxes(p, userName, roles) ==
  LET scopes == RoleScopes(roles) \o <<TEAM_SCOPE>>
  IN [i \in DOMAIN scopes |-> LockboxCreate(keys(state[p], p, scopes[i]), UserKeys(userName))]

\* Team.rotateKeys(compromisedScope)
RECURSIVE rotateAll(_, _, _)
rotateAll(s, scopes, i) ==
  IF i > Len(scopes) THEN <<>>
  ELSE LET newKeys == KeysetCreate(scopes[i])
           oldLockboxes == lockboxesInScope(s, scopes[i])
           newLockboxes == [j \in DOMAIN oldLockboxes |-> LockboxRotate(oldLockboxes[j], newKeys)]
       IN newLockboxes \o rotateAll(s, scopes, i + 1)

\* a rotation of the compromised scope alone, without the scopes visible from it
rotateCompromisedScopeOnly(p, compromisedScope) ==
  rotateAll(state[p], <<compromisedScope>>, 1)

rotateKeys(p, compromisedScope) ==
  rotateAll(state[p], scopesToRotate(state[p], compromisedScope), 1)

\* an add whose ADD_MEMBER link is applied without asking the validators
TeamAddUnchecked(p, userName, roles) ==
  /\ HasTeam(p) /\ NumSigned < MaxSigned
  /\ IF ~CanReach(p, RoleScopes(roles) \o <<TEAM_SCOPE>>)
     THEN Throws("keys not found")
     ELSE LET lockboxes == createMemberLockboxes(p, userName, roles)
          IN dispatchUnchecked(p, "ADD_MEMBER",
                               Payload(userName, "", roles, lockboxes, 0, Fresh(lockboxes)))

\* an add that posts the user object as the caller passed it
addWithoutRedact(p, userName, roles) ==
  /\ HasTeam(p)
  /\ IF ~CanReach(p, RoleScopes(roles) \o <<TEAM_SCOPE>>)
     THEN Throws("keys not found")
     ELSE \E user \in UserOrMember(userName) :
            LET lockboxes == createMemberLockboxes(p, userName, roles)
            IN dispatch(p, "ADD_MEMBER",
                        WithMember(Payload(userName, "", roles, lockboxes, 0, Fresh(lockboxes)),
                                   user))

\* Team.add(user, roles)
add(p, userName, roles) ==
  /\ HasTeam(p)
  /\ IF ~CanReach(p, RoleScopes(roles) \o <<TEAM_SCOPE>>)
     THEN Throws("keys not found")
     ELSE \E user \in UserOrMember(userName) :
            LET lockboxes == createMemberLockboxes(p, userName, roles)
            IN dispatch(p, "ADD_MEMBER",
                        WithMember(Payload(userName, "", roles, lockboxes, 0, Fresh(lockboxes)),
                                   redactUser(user)))

TeamAdd(p, userName, roles) == NumSigned < MaxSigned /\ add(p, userName, roles)

\* Team.remove(userName)
remove(p, userName) ==
  /\ HasTeam(p)
  /\ LET lockboxes == rotateKeys(p, MemberScope(userName))
     IN dispatch(p, "REMOVE_MEMBER",
                 Payload(userName, "", {}, lockboxes, 0, Fresh(lockboxes)))

TeamRemove(p, userName) == NumSigned < MaxSigned /\ remove(p, userName)

\* Team.addRole(role)
addRole(p, roleName) ==
  /\ HasTeam(p)
  /\ IF ~hasKeys(state[p], p, ADMIN_SCOPE)
     THEN Throws("keys not found")
     ELSE LET roleKeys == KeysetCreate(RoleScope(roleName))
              lockboxForAdmin == LockboxCreate(roleKeys, keys(state[p], p, ADMIN_SCOPE))
          IN dispatch(p, "ADD_ROLE",
                      Payload("", roleName, {}, <<lockboxForAdmin>>, 0, Len(minted) + 1))

TeamAddRole(p, roleName) == NumSigned < MaxSigned /\ addRole(p, roleName)

\* Team.removeRole(roleName)
TeamRemoveRole(p, roleName) ==
  /\ HasTeam(p) /\ NumSigned < MaxSigned
  /\ IF roleName = ADMIN
     THEN Throws("Cannot remove admin role.")
     ELSE dispatch(p, "REMOVE_ROLE", Payload("", roleName, {}, <<>>, 0, 0))

\* Team.addMemberRole(userName, roleName)
TeamAddMemberRole(p, userName, roleName) ==
  /\ HasTeam(p) /\ NumSigned < MaxSigned
  /\ IF ~hasMember(state[p], userName)
     THEN Throws("member not found")
     ELSE IF ~hasKeys(state[p], p, RoleScope(roleName))
     THEN Throws("keys not found")
     ELSE LET roleLockbox == LockboxCreate(keys(state[p], p, RoleScope(roleName)),
                                           memberKeys(state[p], userName))
          IN dispatch(p, "ADD_MEMBER_ROLE",
                      Payload(userName, roleName, {}, <<roleLockbox>>, 0, Len(minted) + 1))

\* Team.removeMemberRole(userName, roleName)
removeMemberRole(p, userName, roleName) ==
  /\ HasTeam(p)
  /\ LET lockboxes == rotateKeys(p, RoleScope(roleName))
     IN dispatch(p, "REMOVE_MEMBER_ROLE",
                 Payload(userName, roleName, {}, lockboxes, 0, Fresh(lockboxes)))

TeamRemoveMemberRole(p, userName, roleName) ==
  NumSigned < MaxSigned /\ removeMemberRole(p, userName, roleName)

\* a rotation that leaves every new lockbox addressed to the keys it was addressed to
KeptRecipients(lockboxes, newKeys) == lockboxes

\* the lockboxes of a rotation, those for the principal whose own keys are being
\* replaced addressed to the replacement keys
Readdressed(lockboxes, newKeys) ==
  [i \in DOMAIN lockboxes |->
     IF ScopeOf(lockboxes[i].recipient) = ScopeOf(newKeys)
     THEN [lockboxes[i] EXCEPT !.recipient = newKeys]
     ELSE lockboxes[i]]

\* Team.changeKeys(newKeys): the principal replaces its own keys; the old keys count as
\* compromised, so every scope they open is rotated
changeKeys(p) ==
  /\ HasTeam(p)
  /\ LET newKeys == KeyMeta("MEMBER", p, memberKeys(state[p], p).generation + 1)
         lockboxes == Readdressed(rotateKeys(p, MemberScope(p)), newKeys)
     IN dispatch(p, "CHANGE_KEYS", Payload(p, "", {}, lockboxes, 0, Len(minted) + 1))

\* the single-use keyset derived from an invitation's secret key: the invitee is added
\* with it as their member keys, so it is a keyset of the invitee's MEMBER scope
InvitationKeys(userName) == KeysetCreate(MemberScope(userName))

\* Team.invite(userName, { roles })
invite(p, userName, roles) ==
  /\ HasTeam(p)
  /\ IF ~CanReach(p, <<TEAM_SCOPE>> \o RoleScopes(roles))
     THEN Throws("keys not found")
     ELSE LET scopes == RoleScopes(roles) \o <<TEAM_SCOPE>>
              lockboxes == [i \in DOMAIN scopes |->
                              LockboxCreate(keys(state[p], p, scopes[i]),
                                            InvitationKeys(userName))]
              id == Len(minted) + 1
          IN dispatch(p, "POST_INVITATION",
                      Payload(userName, "", roles, lockboxes, id, id))

TeamInvite(p, userName, roles) == NumSigned < MaxSigned /\ invite(p, userName, roles)

\* Team.revokeInvitation(id)
revokeInvitation(p, id) ==
  /\ HasTeam(p)
  /\ dispatch(p, "REVOKE_INVITATION", Payload("", "", {}, <<>>, id, 0))

TeamRevokeInvitation(p, id) == NumSigned < MaxSigned /\ revokeInvitation(p, id)

\* acceptMemberInvitation(secretKey, redactUser(user)): the proof an invitee presents.
\* The id is derived from the secret key; the signature, made with the key derived from
\* the secret key, covers the payload it was made for
acceptMemberInvitation(id, user) ==
  [id |-> id, type |-> "MEMBER", payload |-> user, signed |-> user]

\* { ...proofOfInvitation, type, payload }: a proof whose type and payload were replaced
\* after signing
forgedProofOfInvitation(proof, type, payload) ==
  [proof EXCEPT !.type = type, !.payload = payload]

\* invitations.validateInvitationBody(proof, invitationBody)
validateInvitationBody(proof, invitationBody) ==
  IF proof.payload.userName # invitationBody.userName THEN "User names don't match"
  ELSE IF proof.signed # proof.payload THEN "Signature provided is not valid"
  ELSE ""

\* a validation that checks the invitation's id and flags but never opens its body
validateProofUnopened(p, proof) ==
  IF ~hasKeys(state[p], p, TEAM_SCOPE) THEN "keys not found"
  ELSE IF ~hasInvitationId(state[p], proof.id) THEN "No invitation with id found."
  ELSE IF state[p].invitations[proof.id].revoked THEN "This invitation has been revoked."
  ELSE IF state[p].invitations[proof.id].used THEN "This invitation has already been used."
  ELSE ""

\* a validation that does not ask whether the invitation was used
validateProofReusable(p, proof) ==
  IF ~hasKeys(state[p], p, TEAM_SCOPE) THEN "keys not found"
  ELSE IF ~hasInvitationId(state[p], proof.id) THEN "No invitation with id found."
  ELSE IF state[p].invitations[proof.id].revoked THEN "This invitation has been revoked."
  ELSE validateInvitationBody(proof, state[p].invitations[proof.id])

\* Team.validateProofOfInvitation(proof): the error it throws, "" when it returns
validateProofOfInvitation(p, proof) ==
  IF ~hasKeys(state[p], p, TEAM_SCOPE) THEN "keys not found"
  ELSE IF ~hasInvitationId(state[p], proof.id) THEN "No invitation with id found."
  ELSE IF state[p].invitations[proof.id].revoked THEN "This invitation has been revoked."
  ELSE IF state[p].invitations[proof.id].used THEN "This invitation has already been used."
  ELSE validateInvitationBody(proof, state[p].invitations[proof.id])

\* an admit that posts the invitee without the roles of the invitation
admitWithoutRoles(p, proof) ==
  /\ HasTeam(p)
  /\ IF proof.type # "MEMBER"
     THEN Throws("Team.admit is only for accepting invitations for members.")
     ELSE IF validateProofOfInvitation(p, proof) # ""
     THEN Throws(validateProofOfInvitation(p, proof))
     ELSE LET invitation == state[p].invitations[proof.id]
          IN dispatch(p, "ADMIT_INVITED_MEMBER",
                      WithMember(Payload("", "", {}, invitation.lockboxes, proof.id, 0),
                                 proof.payload))

\* the chain after admit has posted the invitee with the roles of the invitation
admitted(p, proof) ==
  LET invitation == state[p].invitations[proof.id]
  IN ChainAppend(chain[p], "ADMIT_INVITED_MEMBER",
                 WithMember(Payload("", "", invitation.roles, invitation.lockboxes,
                                    proof.id, 0),
                            proof.payload), p)

\* Team.admit(proof)
admit(p, proof) ==
  /\ HasTeam(p)
  /\ IF proof.type # "MEMBER"
     THEN Throws("Team.admit is only for accepting invitations for members.")
     ELSE IF validateProofOfInvitation(p, proof) # ""
     THEN Throws(validateProofOfInvitation(p, proof))
     ELSE reduceHead(p, admitted(p, proof))

\* the public form of the user of that name, with their own keys
Redacted(userName) == redactUser(UserWithSecrets(userName))

\* what an invitee may swap into a proof: a member under any name with anybody's keys
SwappedPayloads ==
  {[userName |-> u, keys |-> k, secretKeys |-> FALSE] : u \in Users, k \in Users}

\* admit, given the proof the invitee made
TeamAdmit(p, id, userName) ==
  NumSigned < MaxSigned /\ admit(p, acceptMemberInvitation(id, Redacted(userName)))

\* admit, given a proof altered after signing
TeamAdmitForged(p, id, userName, type, payload) ==
  /\ NumSigned < MaxSigned
  /\ type # "MEMBER" \/ payload # Redacted(userName)
  /\ admit(p, forgedProofOfInvitation(acceptMemberInvitation(id, Redacted(userName)),
                                      type, payload))

\* Team.addServer(server)
TeamAddServer(p, host) ==
  /\ HasTeam(p) /\ NumSigned < MaxSigned
  /\ dispatch(p, "ADD_SERVER", Payload(host, "", {}, <<>>, 0, 0))

\* Team.removeServer(host)
TeamRemoveServer(p, host) ==
  /\ HasTeam(p) /\ NumSigned < MaxSigned
  /\ dispatch(p, "REMOVE_SERVER", Payload(host, "", {}, <<>>, 0, 0))

\* ---------------------------------------------------------------- the team

\* the invitation ids a caller can name: those minted so far
InvitationIds ==
  {h \in 1..Len(minted) : minted[h].type = "POST_INVITATION"}

Init ==
  /\ minted = <<>>
  /\ chain = [p \in Peers |-> NoChain]
  /\ state = [p \in Peers |-> initialState]
  /\ last = Outcome(TRUE, "")
  /\ tieSwap = FALSE
  /\ conn = [p \in Peers |-> NewConnection]
  /\ wire = {}

Next ==
  \/ TeamCreate(Founder)
  \/ \E p, q \in Peers : TeamLoad(p, q)
  \/ \E p, q \in Peers : TeamMerge(p, q)
  \/ \E p \in Peers, u \in Peers \ {Founder}, roles \in {{}, {ADMIN}} : TeamAdd(p, u, roles)
  \/ \E p \in Peers, u \in Peers : TeamRemove(p, u)
  \/ \E p \in Peers : TeamAddRole(p, MANAGER)
  \/ \E p \in Peers, r \in RoleNames : TeamRemoveRole(p, r)
  \/ \E p \in Peers, u \in Peers, r \in RoleNames : TeamAddMemberRole(p, u, r)
  \/ \E p \in Peers, u \in Peers, r \in RoleNames : TeamRemoveMemberRole(p, u, r)
  \/ \E p \in Peers, u \in Users \ {Founder}, roles \in {{}, {ADMIN}} :
       TeamInvite(p, u, roles)
  \/ \E p \in Peers, id \in InvitationIds : TeamRevokeInvitation(p, id)
  \/ \E p \in Peers, id \in InvitationIds, u \in Users \ {Founder} : TeamAdmit(p, id, u)
  \/ \E p \in Peers, id \in InvitationIds, u \in Users \ {Founder},
        type \in {"MEMBER", "DEVICE"}, payload \in SwappedPayloads :
       TeamAdmitForged(p, id, u, type, payload)
  \/ \E p \in Peers : TeamAddServer(p, Host)
  \/ \E p \in Peers : TeamRemoveServer(p, Host)

Spec == Init /\ [][Next]_vars

\* two admins, alice and bob, who remove each other and withdraw the admin role, one
\* link deeper than Spec goes
RotationNext ==
  \/ TeamCreate(Founder)
  \/ \E p, q \in Peers : TeamLoad(p, q)
  \/ \E p, q \in Peers : TeamMerge(p, q)
  \/ \E p \in Peers : NumSigned < MaxDeepSigned /\ add(p, "bob", {ADMIN})
  \/ \E p \in Peers, u \in Peers : NumSigned < MaxDeepSigned /\ remove(p, u)
  \/ \E p \in Peers, u \in Peers :
       NumSigned < MaxDeepSigned /\ removeMemberRole(p, u, ADMIN)

SpecRotation == Init /\ [][RotationNext]_vars

\* alice, bob and an invitation that both of them may admit, one link deeper than Spec
\* goes
AdmissionNext ==
  \/ TeamCreate(Founder)
  \/ \E p, q \in Peers : TeamLoad(p, q)
  \/ \E p, q \in Peers : TeamMerge(p, q)
  \/ \E p \in Peers : NumSigned < MaxDeepSigned /\ add(p, "bob", {})
  \/ \E p \in Peers : NumSigned < MaxDeepSigned /\ invite(p, "charlie", {})
  \/ \E p \in Peers, id \in InvitationIds, u \in Users \ {Founder} :
       NumSigned < MaxDeepSigned /\ admit(p, acceptMemberInvitation(id, Redacted(u)))

SpecAdmission == Init /\ [][AdmissionNext]_vars

\* alice, bob and an invitation that is revoked before it is presented, one link and
\* one merge deeper than Spec goes
RevocationNext ==
  \/ TeamCreate(Founder)
  \/ \E p, q \in Peers : TeamLoad(p, q)
  \/ \E p, q \in Peers : merge(p, q, MaxDeepMerges)
  \/ \E p \in Peers : NumSigned < MaxDeepSigned /\ add(p, "bob", {})
  \/ \E p \in Peers : NumSigned < MaxDeepSigned /\ invite(p, "charlie", {})
  \/ \E p \in Peers, id \in InvitationIds :
       NumSigned < MaxDeepSigned /\ revokeInvitation(p, id)
  \/ \E p \in Peers, id \in InvitationIds, u \in Users \ {Founder} :
       NumSigned < MaxDeepSigned /\ admit(p, acceptMemberInvitation(id, Redacted(u)))

SpecRevocation == Init /\ [][RevocationNext]_vars

\* two admins, alice and bob, who add roles, one link deeper than Spec goes
RolesNext ==
  \/ TeamCreate(Founder)
  \/ \E p, q \in Peers : TeamLoad(p, q)
  \/ \E p, q \in Peers : TeamMerge(p, q)
  \/ \E p \in Peers : NumSigned < MaxDeepSigned /\ add(p, "bob", {ADMIN})
  \/ \E p \in Peers, r \in {MANAGER, GUEST} : NumSigned < MaxDeepSigned /\ addRole(p, r)

SpecRoles == Init /\ [][RolesNext]_vars

\* an admin who gives a member without the admin role the manager role and takes it
\* away again, one link deeper than Spec goes
RoleKeysNext ==
  \/ TeamCreate(Founder)
  \/ \E p, q \in Peers : TeamLoad(p, q)
  \/ \E p, q \in Peers : TeamMerge(p, q)
  \/ \E p \in Peers : NumSigned < MaxDeepSigned /\ add(p, "bob", {})
  \/ \E p \in Peers : NumSigned < MaxDeepSigned /\ addRole(p, MANAGER)
  \/ \E p \in Peers, u \in Peers : TeamAddMemberRole(p, u, MANAGER)
  \/ \E p \in Peers, u \in Peers :
       NumSigned < MaxDeepSigned /\ removeMemberRole(p, u, MANAGER)

SpecRoleKeys == Init /\ [][RoleKeysNext]_vars

\* two admins, alice and bob, who replace their own keys, one link deeper than Spec goes
ChangeKeysNext ==
  \/ TeamCreate(Founder)
  \/ \E p, q \in Peers : TeamLoad(p, q)
  \/ \E p, q \in Peers : TeamMerge(p, q)
  \/ \E p \in Peers : NumSigned < MaxDeepSigned /\ add(p, "bob", {ADMIN})
  \/ \E p \in Peers : NumSigned < MaxDeepSigned /\ changeKeys(p)

SpecChangeKeys == Init /\ [][ChangeKeysNext]_vars

\* ---------------------------------------------------------------- the connection

\* the peer at the other end of p's connection
Other(p) == CHOOSE q \in Peers : q # p

\* how far ahead of the next expected index a message may arrive and still be held
Window == 1

\* the random contributions to the session key
Seeds == {1, 2}

\* every message body has the same fields
NoBody ==
  [userName |-> "", proof |-> NoProof, nonce |-> 0, signedBy |-> "", chain |-> NoChain,
   seed |-> 0]

\* what a handler leaves behind: the connection's new context and the <<type, body>> of
\* each message to send
Reply(c, out) == [c |-> c, out |-> out]

\* NumberedConnectionMessage: each outgoing message takes the sender's next index
Numbered(p, r) ==
  {[from |-> p, index |-> r.c.out + i - 1, type |-> r.out[i][1], body |-> r.out[i][2]] :
     i \in DOMAIN r.out}

\* a key made of the two seeds in the order (mine, theirs)
deriveSharedKeyUnsorted(seedA, seedB) == <<"session", seedA, seedB>>

\* hash("session", sort(seedA, seedB))
deriveSharedKey(seedA, seedB) ==
  IF seedA <= seedB THEN <<"session", seedA, seedB>> ELSE <<"session", seedB, seedA>>

disconnected(c) == [c EXCEPT !.st = "disconnected", !.held = {}, !.event = "disconnected"]

\* a verification that looks at the challenge and the member but not at the signature
verifyProofUnsigned(s, c, body) ==
  /\ c.challenge # 0 /\ body.nonce = c.challenge
  /\ hasMember(s, body.userName)

\* the signature on the challenge we issued verifies against the key the team state s
\* holds for the claimed member; a signing secret is named after the member it belongs to
verifyProof(s, c, body) ==
  /\ c.challenge # 0 /\ body.nonce = c.challenge
  /\ hasMember(s, body.userName)
  /\ body.signedBy = body.userName

\* a claimed member is challenged; a claim by someone the team does not list is rejected
challenged(s, c, userName, out) ==
  IF hasMember(s, userName)
  THEN Reply([c EXCEPT !.challenge = c.out + Len(out) + 1, !.pending = ""],
             Append(out, <<"CHALLENGE_IDENTITY",
                           [NoBody EXCEPT !.userName = userName,
                                          !.nonce = c.out + Len(out) + 1]>>))
  ELSE Reply(disconnected(c), Append(out, <<"REJECT_IDENTITY", NoBody>>))

\* once we have verified them and they have accepted us, synchronizing starts with our graph
authenticated(c, ourChain, out) ==
  IF c.verified /\ c.accepted
  THEN Reply([c EXCEPT !.st = "synchronizing", !.sentHead = getHead(ourChain)],
             Append(out, <<"SYNC", [NoBody EXCEPT !.chain = ourChain]>>))
  ELSE Reply(c, out)

\* with both seeds in hand the session key is agreed and the connection is up
negotiated(c) ==
  IF c.seed # 0 /\ c.theirSeed # 0
  THEN [c EXCEPT !.st = "connected", !.sessionKey = deriveSharedKey(c.seed, c.theirSeed),
                 !.event = "connected"]
  ELSE c

Synced == {"synchronizing", "negotiating", "connected"}

\* what a call on p's team leaves behind: the chain ch it assigns and the state it
\* computes, when r is the outcome of the reducer; a load that throws assigns nothing
Effect(kind, p, ch, r) ==
  [kind |-> kind, chain |-> IF kind = "load" /\ ~r.ok THEN chain[p] ELSE ch,
   state |-> IF r.ok THEN r.state ELSE state[p], ok |-> r.ok, err |-> r.err]

\* a SYNC whose graph is merged without the team state being reduced again
effectKeepsState(p, c, msg) ==
  IF msg.type = "SYNC" /\ c.st \in Synced /\ getHead(msg.body.chain) # getHead(chain[p])
  THEN Effect("merge", p, ChainMerge(chain[p], msg.body.chain), Reduced(state[p]))
  ELSE Effect("none", p, chain[p], Reduced(state[p]))

\* what acting on a message does to the team: merge the graph of a SYNC, admit the
\* invitee, load the graph we were admitted to, or nothing
effect(p, c, msg) ==
  IF msg.type = "SYNC" /\ c.st \in Synced /\ getHead(msg.body.chain) # getHead(chain[p])
  THEN Effect("merge", p, ChainMerge(chain[p], msg.body.chain),
              updateState(ChainMerge(chain[p], msg.body.chain)))
  ELSE IF /\ msg.type = "CLAIM_IDENTITY" /\ c.st = "authenticating" /\ HasTeam(p)
          /\ msg.body.proof.type = "MEMBER"
          /\ validateProofOfInvitation(p, msg.body.proof) = ""
  THEN Effect("admit", p, admitted(p, msg.body.proof),
              reducer(state[p], admitted(p, msg.body.proof).links[
                                  getHead(admitted(p, msg.body.proof))]))
  ELSE IF msg.type = "ACCEPT_INVITATION" /\ c.st = "authenticating" /\ ~HasTeam(p)
  THEN Effect("load", p, msg.body.chain, updateState(msg.body.chain))
  ELSE Effect("none", p, chain[p], Reduced(state[p]))

\* the transitions of the connection on a message from the peer; t is what the message
\* did to the team, seed the random contribution minted if it ends synchronizing
receive(p, c, msg, seed, t) ==
  CASE msg.type = "REQUEST_IDENTITY" /\ c.st = "connecting" ->
         Reply([c EXCEPT !.st = "authenticating"],
               <<<<"CLAIM_IDENTITY", [NoBody EXCEPT !.userName = p, !.proof = c.proof]>>>>)
    [] msg.type = "CLAIM_IDENTITY" /\ c.st = "authenticating" ->
         IF c.proof # NoProof
         THEN \* we hold no team yet: their claim waits until we are admitted
              Reply([c EXCEPT !.pending = msg.body.userName], <<>>)
         ELSE IF msg.body.proof = NoProof
         THEN challenged(t.state, c, msg.body.userName, <<>>)
         ELSE IF t.kind = "admit" /\ t.ok
         THEN Reply(c, <<<<"ACCEPT_INVITATION", [NoBody EXCEPT !.chain = t.chain]>>>>)
         ELSE Reply(disconnected(c), <<<<"DISCONNECT", NoBody>>>>)
    [] msg.type = "ACCEPT_INVITATION" /\ c.st = "authenticating" /\ c.proof # NoProof ->
         IF t.kind = "load" /\ t.ok
         THEN LET claim == <<<<"CLAIM_IDENTITY", [NoBody EXCEPT !.userName = p]>>>>
              IN  IF c.pending = "" THEN Reply([c EXCEPT !.proof = NoProof], claim)
                  ELSE challenged(t.state, [c EXCEPT !.proof = NoProof], c.pending, claim)
         ELSE Reply(disconnected(c), <<<<"DISCONNECT", NoBody>>>>)
    [] msg.type = "CHALLENGE_IDENTITY" /\ c.st = "authenticating" ->
         Reply(c, <<<<"PROVE_IDENTITY",
                     [NoBody EXCEPT !.userName = p, !.nonce = msg.body.nonce,
                                    !.signedBy = c.secret]>>>>)
    [] msg.type = "PROVE_IDENTITY" /\ c.st = "authenticating" ->
         IF verifyProof(t.state, c, msg.body)
         THEN authenticated([c EXCEPT !.verified = TRUE], t.chain,
                            <<<<"ACCEPT_IDENTITY", NoBody>>>>)
         ELSE Reply(disconnected(c), <<<<"REJECT_IDENTITY", NoBody>>>>)
    [] msg.type = "ACCEPT_IDENTITY" /\ c.st = "authenticating" ->
         authenticated([c EXCEPT !.accepted = TRUE], t.chain, <<>>)
    [] msg.type \in {"REJECT_IDENTITY", "DISCONNECT"} ->
         Reply(disconnected(c), <<>>)
    [] msg.type = "SYNC" /\ t.kind = "merge" ->
         Reply([c EXCEPT !.event = IF t.ok THEN "updated" ELSE "error"], <<>>)
    [] msg.type = "SYNC" /\ t.kind # "merge" /\ c.st = "synchronizing" ->
         \* their head is ours: synchronizing is over
         Reply(negotiated([c EXCEPT !.st = "negotiating", !.seed = seed]),
               <<<<"SEED", [NoBody EXCEPT !.userName = Other(p), !.seed = seed]>>>>)
    [] msg.type = "SEED" /\ c.st \in Synced /\ msg.body.userName = p ->
         Reply(IF c.st = "synchronizing" THEN [c EXCEPT !.theirSeed = msg.body.seed]
               ELSE negotiated([c EXCEPT !.theirSeed = msg.body.seed]), <<>>)
    [] OTHER -> Reply(c, <<>>)

\* a transition: the connection takes the context the message leaves behind and sends the
\* replies, and the outcome t of the team call the message led to is assigned
acting(p, c, msg, seed, maxMerges, t) ==
  /\ conn' = [conn EXCEPT ![p] = [receive(p, c, msg, seed, t).c EXCEPT
                                    !.out = @ + Len(receive(p, c, msg, seed, t).out)]]
  /\ wire' = (wire \ {msg}) \cup Numbered(p, receive(p, c, msg, seed, t))
  /\ IF t.kind = "none"
     THEN UNCHANGED <<minted, chain, state, last, tieSwap>>
     ELSE /\ IF t.kind = "load" /\ ~t.ok THEN TRUE
             ELSE \/ HashOf(t.chain.links[getHead(t.chain)]) <= Len(minted)
                  \/ t.kind = "merge" /\ NumMerges < maxMerges
                  \/ t.kind = "admit" /\ NumSigned < MaxSigned
          /\ minted' = IF t.kind = "load" /\ ~t.ok THEN minted
                       ELSE Mint(t.chain.links[getHead(t.chain)])
          /\ chain' = [chain EXCEPT ![p] = t.chain]
          /\ state' = [state EXCEPT ![p] = t.state]
          /\ last' = Outcome(t.ok, t.err)
          /\ UNCHANGED tieSwap

\* the connection acts on the message that carries the next expected index
act(p, msg, seed, maxMerges) ==
  acting(p, [conn[p] EXCEPT !.expect = msg.index + 1, !.acted = Append(@, msg.index),
                           !.held = @ \ {msg}, !.event = ""],
         msg, seed, maxMerges, effect(p, conn[p], msg))

\* connection.start(): both peers send REQUEST_IDENTITY; the context holds the team of a
\* member, or the proof of invitation of someone who has no team yet
start(p, secret, proof) ==
  /\ conn[p].st = "idle"
  /\ IF proof = NoProof THEN HasTeam(p) ELSE ~HasTeam(p)
  /\ LET r == Reply([conn[p] EXCEPT !.st = "connecting", !.secret = secret, !.proof = proof,
                                    !.startHead = getHead(chain[p])],
                    <<<<"REQUEST_IDENTITY", NoBody>>>>) IN
     /\ conn' = [conn EXCEPT ![p] = [r.c EXCEPT !.out = @ + Len(r.out)]]
     /\ wire' = wire \cup Numbered(p, r)
  /\ UNCHANGED <<minted, chain, state, last, tieSwap>>

\* connection.stop()
stop(p) ==
  /\ conn' = [conn EXCEPT ![p] = IF @.st = "disconnected" THEN @ ELSE disconnected(@)]
  /\ UNCHANGED <<minted, chain, state, last, tieSwap, wire>>

\* a timer that runs in the first sub-state only
timeoutWhileConnecting(p) ==
  /\ conn[p].st = "connecting"
  /\ conn' = [conn EXCEPT ![p] = [disconnected(@) EXCEPT !.event = "timeout"]]
  /\ UNCHANGED <<minted, chain, state, last, tieSwap, wire>>

\* the timer of a sub-state runs out before the awaited message has come: disconnected,
\* with Timeout
timeout(p) ==
  /\ conn[p].st \in {"connecting", "authenticating", "synchronizing", "negotiating"}
  /\ conn' = [conn EXCEPT ![p] = [disconnected(@) EXCEPT !.event = "timeout"]]
  /\ UNCHANGED <<minted, chain, state, last, tieSwap, wire>>

\* a delivery that acts on the message whatever its index
deliverUnordered(p, msg, seed, maxMerges) ==
  /\ msg \in wire /\ msg.from # p /\ conn[p].st \notin {"idle", "disconnected"}
  /\ act(p, msg, seed, maxMerges)

\* a delivery that does not ask whether the connection was stopped
deliverToStopped(p, msg, seed, maxMerges) ==
  /\ msg \in wire /\ msg.from # p /\ conn[p].st # "idle"
  /\ msg.index = conn[p].expect
  /\ act(p, msg, seed, maxMerges)

\* connection.deliver(msg): the transport hands over any message in flight
deliver(p, msg, seed, maxMerges) ==
  /\ msg \in wire /\ msg.from # p /\ conn[p].st # "idle"
  /\ IF conn[p].st = "disconnected" \/ msg.index < conn[p].expect
     THEN \* a stopped connection refuses the delivery
          /\ wire' = wire \ {msg}
          /\ UNCHANGED <<minted, chain, state, last, tieSwap, conn>>
     ELSE IF msg.index = conn[p].expect
     THEN act(p, msg, seed, maxMerges)
     ELSE IF msg.index - conn[p].expect <= Window
     THEN \* ahead of a missing index, within the window: held
          /\ conn' = [conn EXCEPT ![p] = [@ EXCEPT !.held = @ \cup {msg}, !.event = ""]]
          /\ wire' = wire \ {msg}
          /\ UNCHANGED <<minted, chain, state, last, tieSwap>>
     ELSE \* outside the window: rejected; the sender sends it again on the resync request
          /\ conn' = [conn EXCEPT ![p] = [@ EXCEPT !.event = "resync"]]
          /\ UNCHANGED <<minted, chain, state, last, tieSwap, wire>>

\* a held message whose turn has come
actHeld(p, seed, maxMerges) ==
  /\ conn[p].st # "disconnected"
  /\ \E msg \in conn[p].held : msg.index = conn[p].expect /\ act(p, msg, seed, maxMerges)

\* LOCAL_UPDATE { head }: the team's head is not the one we last sent
localUpdate(p) ==
  /\ conn[p].st \in Synced /\ conn[p].sentHead # getHead(chain[p])
  /\ LET r == Reply([conn[p] EXCEPT !.sentHead = getHead(chain[p]), !.event = ""],
                    <<<<"SYNC", [NoBody EXCEPT !.chain = chain[p]]>>>>) IN
     /\ conn' = [conn EXCEPT ![p] = [r.c EXCEPT !.out = @ + Len(r.out)]]
     /\ wire' = wire \cup Numbered(p, r)
  /\ UNCHANGED <<minted, chain, state, last, tieSwap>>

\* the handshake, between two members who hold the same graph or between a member and
\* someone the member has invited
ConnectionNext ==
  \/ TeamCreate(Founder)
  \/ \E p \in Peers : TeamAdd(p, "bob", {ADMIN})
  \/ \E p \in Peers : TeamInvite(p, "bob", {})
  \/ \E p, q \in Peers : TeamLoad(p, q)
  \/ \E p \in Peers : \E secret \in {p, "forged"} : start(p, secret, NoProof)
  \/ \E p \in Peers, id \in InvitationIds, u \in Users \ {Founder} :
       start(p, p, acceptMemberInvitation(id, Redacted(u)))
  \/ \E p \in Peers : stop(p)
  \/ \E p \in Peers, msg \in wire, seed \in Seeds : deliver(p, msg, seed, MaxMerges)
  \/ \E p \in Peers, seed \in Seeds : actHeld(p, seed, MaxMerges)

SpecConnection == Init /\ [][ConnectionNext]_vars

\* two members who change the team before and after they connect
SyncNext ==
  \/ TeamCreate(Founder)
  \/ \E p \in Peers : TeamAdd(p, "bob", {ADMIN})
  \/ \E p, q \in Peers : ~HasTeam(p) /\ TeamLoad(p, q)
  \/ \E p \in Peers : TeamAddRole(p, IF p = Founder THEN MANAGER ELSE GUEST)
  \/ \E p \in Peers : start(p, p, NoProof)
  \/ \E p \in Peers, msg \in wire, seed \in Seeds : deliver(p, msg, seed, MaxMerges)
  \/ \E p \in Peers, seed \in Seeds : actHeld(p, seed, MaxMerges)
  \/ \E p \in Peers : localUpdate(p)

SpecSync == Init /\ [][SyncNext]_vars

\* two members who hold the same graph connect, and one of them then changes the team
SteadyNext ==
  \/ TeamCreate(Founder)
  \/ ~hasMember(state[Founder], "bob") /\ TeamAdd(Founder, "bob", {ADMIN})
  \/ \E p, q \in Peers : ~HasTeam(p) /\ TeamLoad(p, q)
  \/ \E p \in Peers : start(p, p, NoProof)
  \/ \E p \in Peers, msg \in wire, seed \in Seeds : deliver(p, msg, seed, MaxMerges)
  \/ \E p \in Peers, seed \in Seeds : actHeld(p, seed, MaxMerges)
  \/ \E p \in Peers : localUpdate(p)
  \/ /\ \A p \in Peers : conn[p].st = "connected"
     /\ ~hasRole(state[Founder], MANAGER)
     /\ TeamAddRole(Founder, MANAGER)

\* the transport hands over every message after a finite delay, and the connection gets
\* to every event it has queued: weak fairness of deliver, actHeld and localUpdate. For
\* the first two the enabling condition is written out as a state predicate: actable is
\* the guard of acting, canDeliver and canActHeld those of deliver and actHeld
SpecSteady ==
  /\ Init /\ [][SteadyNext]_vars
  /\ LET actable(t) ==
        IF t.kind = "none" \/ (t.kind = "load" /\ ~t.ok) THEN TRUE
        ELSE \/ HashOf(t.chain.links[getHead(t.chain)]) <= Len(minted)
             \/ t.kind = "merge" /\ NumMerges < MaxMerges
             \/ t.kind = "admit" /\ NumSigned < MaxSigned
      canDeliver(p) ==
        /\ conn[p].st # "idle"
        /\ \E msg \in wire :
             /\ msg.from # p
             /\ IF conn[p].st = "disconnected" \/ msg.index < conn[p].expect THEN TRUE
                ELSE IF msg.index = conn[p].expect THEN actable(effect(p, conn[p], msg))
                ELSE IF msg.index - conn[p].expect <= Window THEN TRUE
                ELSE conn[p].event # "resync"
      canActHeld(p) ==
        /\ conn[p].st # "disconnected"
        /\ \E msg \in conn[p].held :
             msg.index = conn[p].expect /\ actable(effect(p, conn[p], msg))
     IN \A p \in Peers :
          /\ \/ []<>(~canDeliver(p))
             \/ []<><<\E msg \in wire, seed \in Seeds : deliver(p, msg, seed, MaxMerges)>>_vars
          /\ \/ []<>(~canActHeld(p))
             \/ []<><<\E seed \in Seeds : actHeld(p, seed, MaxMerges)>>_vars
          /\ WF_vars(localUpdate(p))

\* the connections of SteadyNext with the timers of their sub-states; a timer that is
\* running does run out, while nothing is assumed of the transport or of the peer
SpecTimeout ==
  /\ Init /\ [][SteadyNext \/ \E p \in Peers : timeout(p)]_vars
  /\ \A p \in Peers : WF_vars(timeout(p))

\* ---------------------------------------------------------------- claims on the team

\* C1: for two teams whose chains share a root, the state computed after merge(A, B)
\* equals the state computed after merge(B, A) (and the one merge throws exactly when
\* the other does).
SameOutcome(ab, ba) == ab.ok = ba.ok /\ (ab.ok => ab.state = ba.state)

IsReplay(r, s) == r.ok /\ r.state = s

Replays(c, s) == IsReplay(updateState(c), s)

\* the step appends a signed link to p's chain
Appends(p) ==
  /\ HasTeam(p) /\ chain'[p] # chain[p]
  /\ Len(minted') > Len(minted)
  /\ ~isMergeLink(minted'[Len(minted')])

C2_IncrementalEqualsReplay ==
  [][\A p \in Peers :
       (Appends(p) /\ last'.ok /\ Replays(chain[p], state[p]))
         => Replays(chain'[p], state'[p])]_vars

\* three successful dispatches in a row, the state being the replay of all of them
C2_Witness ==
  \E p \in Peers :
    /\ HasTeam(p) /\ last.ok
    /\ Cardinality(Ids(chain[p])) = MaxSigned
    /\ \A h \in Ids(chain[p]) : chain[p].links[h].user = p
    /\ Replays(chain[p], state[p])
    /\ Len(state[p].members) > 1

\* C7: append adds exactly one new link whose prev is the former head and makes it the
\* new head; every link already in the chain keeps its hash and content, and the root
\* is unchanged.
AppendPost(old, new) ==
  /\ new.head \notin Ids(old)
  /\ Ids(new) = Ids(old) \cup {new.head}
  /\ new.links[new.head].kind = "SIGNED"
  /\ new.links[new.head].prev = old.head
  /\ \A h \in Ids(old) : new.links[h] = old.links[h]
  /\ new.root = old.root

C7_AppendAddsOneLink ==
  [][\A p \in Peers : Appends(p) => AppendPost(chain[p], chain'[p])]_vars

\* a link has been appended to a chain of at least two links
C7_Witness ==
  \E p \in Peers :
    /\ HasTeam(p)
    /\ Cardinality(Ids(chain[p])) >= 3
    /\ chain[p].links[chain[p].head].kind = "SIGNED"
    /\ chain[p].links[chain[p].head].prev # chain[p].root

\* C8: a newly created team has exactly one member, the founder, who holds the admin
\* role and obtains the team keys and the admin keys, both at generation 0, through
\* the lockboxes posted in the root link.
NewTeam(p) == HasTeam(p) /\ Ids(chain[p]) = {chain[p].root}

FounderHoldsKeys(s, founder, scope) ==
  /\ hasKeys(s, founder, scope)
  /\ keys(s, founder, scope).generation = 0

C8_NewTeamHasFounderAsAdmin ==
  \A p \in Peers :
    NewTeam(p) =>
      LET founder == chain[p].links[chain[p].root].user
      IN /\ founder = p
         /\ Len(state[p].members) = 1
         /\ state[p].members[1].userName = founder
         /\ ADMIN \in state[p].members[1].roles
         /\ state[p].lockboxes = chain[p].links[chain[p].root].payload.lockboxes
         /\ FounderHoldsKeys(state[p], founder, TEAM_SCOPE)
         /\ FounderHoldsKeys(state[p], founder, ADMIN_SCOPE)

\* the constructor has returned a new team
C8_Witness == \E p \in Peers : NewTeam(p) /\ last.ok /\ state[p].teamName # ""

\* C9: an admin-only call (add or remove a member, add or remove a role, grant or
\* withdraw a member's role, invite a member, revoke an invitation, add or remove a
\* server) made by a user who is not an admin in the team's state fails and leaves the
\* team state as it was.
AdminOnlyCall(p) ==
  \/ \E u \in Peers \ {Founder}, roles \in {{}, {ADMIN}} : TeamAdd(p, u, roles)
  \/ \E u \in Peers : TeamRemove(p, u)
  \/ TeamAddRole(p, MANAGER)
  \/ \E r \in RoleNames : TeamRemoveRole(p, r)
  \/ \E u \in Peers, r \in RoleNames : TeamAddMemberRole(p, u, r)
  \/ \E u \in Peers, r \in RoleNames : TeamRemoveMemberRole(p, u, r)
  \/ \E u \in Users \ {Founder}, roles \in {{}, {ADMIN}} : TeamInvite(p, u, roles)
  \/ \E id \in InvitationIds : TeamRevokeInvitation(p, id)
  \/ TeamAddServer(p, Host)
  \/ TeamRemoveServer(p, Host)

C9_NonAdminCannotChangeState ==
  [][\A p \in Peers :
       (AdminOnlyCall(p) /\ ~memberIsAdmin(state[p], p)) => (state' = state /\ ~last'.ok)]_vars

\* a member who is not an admin has just had an admin-only action rejected
C9_Witness ==
  \E p \in Peers :
    /\ HasTeam(p)
    /\ hasMember(state[p], p) /\ ~memberIsAdmin(state[p], p)
    /\ chain[p].links[chain[p].head].user = p
    /\ chain[p].links[chain[p].head].type \in AdminOnly
    /\ ~last.ok /\ last.err = "not admin"

\* C10: in every reachable team state the admin role exists and at least one member
\* holds it.
C10_AdminRoleNonEmpty ==
  \A p \in Peers : HasTeam(p) => (hasRole(state[p], ADMIN) /\ admins(state[p]) # {})

\* C11: in every team state no two members share a userName.
C11_UniqueUserNames ==
  \A p \in Peers :
    \A i, j \in DOMAIN state[p].members :
      state[p].members[i].userName = state[p].members[j].userName => i = j

\* C12: add(user), called by an admin for a userName that is already a member, fails
\* with the already-a-member error and leaves the team state (members, roles,
\* lockboxes) unchanged.
AddsPresentMember(p) ==
  \E u \in Peers \ {Founder}, roles \in {{}, {ADMIN}} :
    hasMember(state[p], u) /\ TeamAdd(p, u, roles)

C12_AddExistingMemberFails ==
  [][\A p \in Peers :
       (AddsPresentMember(p) /\ memberIsAdmin(state[p], p))
         => (~last'.ok /\ last'.err = "already a member" /\ state' = state)]_vars

\* an admin's ADD_MEMBER for a present member has just been rejected
C12_Witness ==
  \E p \in Peers :
    /\ HasTeam(p) /\ memberIsAdmin(state[p], p)
    /\ chain[p].links[chain[p].head].user = p
    /\ chain[p].links[chain[p].head].type = "ADD_MEMBER"
    /\ hasMember(state[p], chain[p].links[chain[p].head].payload.userName)
    /\ ~last.ok /\ last.err = "already a member"
    /\ Len(state[p].members) = 2

\* C13: after an admin has removed a member, has(userName) is false, the generation of
\* the team keys and of every role key the removed member could open is exactly one
\* higher than before, and every remaining member who held those keys can open the
\* new generation.
SharedScopes == {TEAM_SCOPE} \cup {RoleScope(r) : r \in RoleNames}

\* the members of s, other than userName, who can open the current keys of the scope
Holders(s, scope, userName) ==
  {m \in Users \ {userName} :
     /\ hasMember(s, m) /\ hasKeys(s, m, scope)
     /\ keys(s, m, scope).generation = CurrentGeneration(s, scope)}

RemovePost(old, new, userName) ==
  /\ ~hasMember(new, userName)
  /\ \A scope \in SharedScopes :
       hasKeys(old, userName, scope) =>
         /\ CurrentGeneration(new, scope) = CurrentGeneration(old, scope) + 1
         /\ Holders(old, scope, userName) \subseteq Holders(new, scope, userName)

C13_RemoveRotatesKeys ==
  [][\A p \in Peers, u \in Peers :
       (TeamRemove(p, u) /\ last'.ok) => RemovePost(state[p], state'[p], u)]_vars

\* an admin who held the admin keys has been removed, and the team keys and admin keys
\* are at generation 1
C13_Witness ==
  \E p \in Peers, u \in Peers :
    /\ HasTeam(p) /\ last.ok
    /\ chain[p].links[chain[p].head].type = "REMOVE_MEMBER"
    /\ chain[p].links[chain[p].head].payload.userName = u
    /\ ~hasMember(state[p], u) /\ u \in state[p].removedMembers
    /\ keys(state[p], p, TEAM_SCOPE).generation = 1
    /\ keys(state[p], p, ADMIN_SCOPE).generation = 1

\* C14: after remove(M), the keyring M held at the moment of removal opens none of the
\* lockboxes posted with the removal link.
LockedOut(frozen, posted) == \A i \in DOMAIN posted : posted[i].recipient \notin frozen

C14_RemovedMemberLockedOut ==
  [][\A p \in Peers, u \in Peers :
       (TeamRemove(p, u) /\ last'.ok)
         => LockedOut(Keyring(state[p].lockboxes, {UserKeys(u)}),
                      chain'[p].links[getHead(chain'[p])].payload.lockboxes)]_vars

\* C15: in every team state each member's keyring, the fixpoint of opening lockboxes
\* from the member's own keys, holds keys of exactly these scopes: the team, every role
\* the member belongs to, and the member; so a member without the admin role holds no
\* admin keys.
KeyringScopes(s, userName) ==
  {ScopeOf(k) : k \in Keyring(s.lockboxes, {UserKeys(userName)})}

EntitledScopes(m) ==
  {MemberScope(m.userName), TEAM_SCOPE} \cup {RoleScope(r) : r \in m.roles}

C15_KeyringIsExact ==
  \A p \in Peers :
    \A i \in DOMAIN state[p].members :
      KeyringScopes(state[p], state[p].members[i].userName)
        = EntitledScopes(state[p].members[i])

\* C16: for every scope the current key generation in a team's state never decreases,
\* whatever operation or merge the team performs.
C16_GenerationsNeverDecrease ==
  [][\A p \in Peers, scope \in SharedScopes :
       CurrentGeneration(state'[p], scope) >= CurrentGeneration(state[p], scope)]_vars

OpenInvitations(p) ==
  {id \in DOMAIN state[p].invitations :
     ~state[p].invitations[id].revoked /\ ~state[p].invitations[id].used}

ValidIffNamesMatch ==
  \A p \in Peers :
    hasKeys(state[p], p, TEAM_SCOPE) =>
      \A id \in OpenInvitations(p), x \in Users :
        validateProofOfInvitation(p, acceptMemberInvitation(id, Redacted(x))) = ""
          <=> x = state[p].invitations[id].userName

ForgedIsRejected ==
  \A p \in Peers, id \in InvitationIds, u \in Users \ {Founder},
     type \in {"MEMBER", "DEVICE"}, payload \in SwappedPayloads :
    TeamAdmitForged(p, id, u, type, payload)
      => (~last'.ok /\ state' = state /\ chain' = chain)

C18_InvitationSoundness == []ValidIffNamesMatch /\ [][ForgedIsRejected]_vars

\* a proof with the invitee's name and somebody else's keys has just been refused,
\* the invitation still being open
C18_Witness ==
  /\ ~last.ok /\ last.err = "Signature provided is not valid"
  /\ \E p \in Peers : hasKeys(state[p], p, TEAM_SCOPE) /\ OpenInvitations(p) # {}

\* C19: an admit by a member (admin or not) with the invitee's own proof of a posted,
\* unused, unrevoked invitation, the invitee not yet being a member, succeeds, adds the
\* invitee with the roles named in the invitation and marks the invitation used; and a
\* peer that then loads the admitter's chain, or merges it into a chain that is behind
\* it, both states being what their chains replay to, succeeds and has every admitted
\* member of the admitter's state in its own.
AdmitsInvitee(p, id, u) ==
  /\ TeamAdmit(p, id, u)
  /\ hasMember(state[p], p) /\ ~hasMember(state[p], u)
  /\ id \in OpenInvitations(p) /\ state[p].invitations[id].userName = u

AdmitPost(old, new, id, u) ==
  /\ hasMember(new, u)
  /\ member(new, u).roles = old.invitations[id].roles
  /\ new.invitations[id].used
  /\ Len(new.members) = Len(old.members) + 1

\* the members of p's state whom an ADMIT_INVITED_MEMBER link of p's chain admitted
Admitted(p) ==
  {u \in Users :
     /\ hasMember(state[p], u)
     /\ \E h \in Ids(chain[p]) :
          /\ chain[p].links[h].type = "ADMIT_INVITED_MEMBER"
          /\ chain[p].links[h].payload.userName = u}

\* q takes over p's chain: by loading it, or by merging it while q's head lies on it
\* and q's state is what its own chain replays to
CatchesUp(q, p) ==
  \/ TeamLoad(q, p)
  \/ /\ TeamMerge(q, p)
     /\ getHead(chain[q]) \in Ids(chain[p])
     /\ Replays(chain[q], state[q])

AdmitLinks(c, id) ==
  {h \in Ids(c) : c.links[h].type = "ADMIT_INVITED_MEMBER" /\ c.links[h].payload.id = id}

AdmitsUsed(p, id, u) ==
  /\ admit(p, acceptMemberInvitation(id, Redacted(u)))
  /\ hasKeys(state[p], p, TEAM_SCOPE)
  /\ hasInvitationId(state[p], id)
  /\ state[p].invitations[id].used /\ ~state[p].invitations[id].revoked

AdmittedTwice(c) == \E id \in InvitationIds : Cardinality(AdmitLinks(c, id)) > 1

\* each chain carries one admission of an invitation, and the two are different links
BringsSecondAdmission(mine, theirs) ==
  \E id \in InvitationIds :
    /\ Cardinality(AdmitLinks(mine, id)) = 1 /\ Cardinality(AdmitLinks(theirs, id)) = 1
    /\ AdmitLinks(mine, id) # AdmitLinks(theirs, id)

\* a chain that no merge has touched yet
Unmerged(c) == SignedIds(c) = Ids(c)

Invitees(s) == {i \in DOMAIN s.members : s.members[i].userName = "charlie"}

UsedInvitations(s) == {id \in DOMAIN s.invitations : s.invitations[id].used}

OnePrincipalPerInvitation ==
  \A p \in Peers : Cardinality(Invitees(state[p])) <= Cardinality(UsedInvitations(state[p]))

SecondAdmitFails ==
  /\ \A p \in Peers, id \in InvitationIds, u \in Users \ {Founder} :
       AdmitsUsed(p, id, u)
         => /\ last' = Outcome(FALSE, "This invitation has already been used.")
            /\ UNCHANGED <<chain, state>>
  /\ \A q, p \in Peers :
       (/\ TeamMerge(q, p) /\ BringsSecondAdmission(chain[q], chain[p])
        /\ Unmerged(chain[q]) /\ Unmerged(chain[p])
        /\ Replays(chain[q], state[q]) /\ Replays(chain[p], state[p]))
         => /\ last' = Outcome(FALSE, "invitation used")
            /\ state'[q] = state[q]

RevokeLinks(c, id) ==
  {h \in Ids(c) : c.links[h].type = "REVOKE_INVITATION" /\ c.links[h].payload.id = id}

\* p's chain holds a revocation of id signed by an admin of p's team
HoldsRevocation(p, id) ==
  /\ HasTeam(p) /\ Replays(chain[p], state[p])
  /\ \E h \in RevokeLinks(chain[p], id) : memberIsAdmin(state[p], chain[p].links[h].user)

C21_RevokedInvitationIsRejected ==
  [][\A p \in Peers, id \in InvitationIds, u \in Users \ {Founder} :
       (admit(p, acceptMemberInvitation(id, Redacted(u))) /\ HoldsRevocation(p, id))
         => (~last'.ok /\ state' = state)]_vars

\* C22: when a peer merges a chain into its own, each state being what its chain replays
\* to, and one side's own links remove member C while every signed link of the other
\* side's own was posted by C (none of them a removal), the merge succeeds and leaves the
\* state that the remover's side had: C's links have no effect and C is not a member.
OwnLinks(mine, theirs) == SignedIds(mine) \ Ids(theirs)

Removes(c, hs, userName) ==
  \E h \in hs : c.links[h].type = "REMOVE_MEMBER" /\ c.links[h].payload.userName = userName

\* the remover's chain took C out while C was writing on the written chain
RemovedWhileWriting(remover, written, userName) ==
  /\ Removes(remover, OwnLinks(remover, written), userName)
  /\ OwnLinks(written, remover) # {}
  /\ \A h \in OwnLinks(written, remover) :
       written.links[h].user = userName /\ written.links[h].type # "REMOVE_MEMBER"
  /\ \A h \in OwnLinks(remover, written) : remover.links[h].user # userName

PostedOnlyBy(mine, theirs, userName) ==
  /\ OwnLinks(mine, theirs) # {}
  /\ \A h \in OwnLinks(mine, theirs) : mine.links[h].user = userName

RemoveEachOther(mine, theirs, x, y) ==
  /\ x # y
  /\ PostedOnlyBy(mine, theirs, x) /\ Removes(mine, OwnLinks(mine, theirs), y)
  /\ PostedOnlyBy(theirs, mine, y) /\ Removes(theirs, OwnLinks(theirs, mine), x)

OneRemovalWins(s, x, y) ==
  IF UserRank(x) < UserRank(y)
  THEN hasMember(s, y) /\ ~hasMember(s, x)
  ELSE hasMember(s, x) /\ ~hasMember(s, y)

RolesAdded(mine, theirs) == {mine.links[h].payload.roleName : h \in OwnLinks(mine, theirs)}

AddDifferentRoles(mine, theirs) ==
  /\ OwnLinks(mine, theirs) # {} /\ OwnLinks(theirs, mine) # {}
  /\ \A h \in OwnLinks(mine, theirs) : mine.links[h].type = "ADD_ROLE"
  /\ \A h \in OwnLinks(theirs, mine) : theirs.links[h].type = "ADD_ROLE"
  /\ RolesAdded(mine, theirs) \cap RolesAdded(theirs, mine) = {}

C24_DisjointWritesCommute ==
  [][\A q, p \in Peers :
       (/\ TeamMerge(q, p)
        /\ Replays(chain[q], state[q]) /\ Replays(chain[p], state[p])
        /\ AddDifferentRoles(chain[q], chain[p]))
         => /\ last'.ok
            /\ Range(state'[q].roles) = Range(state[q].roles) \cup Range(state[p].roles)
            /\ SameOutcome(merged(chain[q], state[q], chain[p]),
                           merged(chain[p], state[p], chain[q]))]_vars

\* ---------------------------------------------------------------- claims on the connection

BothConnected == \A p \in Peers : conn[p].st = "connected"

\* C25: whenever both peers are connected they hold the same session key, and that key
\* is made of the seed each of the two contributed, whichever SEED was acted on first
C25_SameSessionKey ==
  BothConnected =>
    \A p \in Peers :
      /\ conn[p].sessionKey = conn[Other(p)].sessionKey
      /\ Len(conn[p].sessionKey) = 3
      /\ {conn[p].sessionKey[2], conn[p].sessionKey[3]} = {conn[p].seed, conn[Other(p)].seed}

\* both connected, the peer with the larger contribution having connected on the other's SEED
C25_Witness ==
  /\ BothConnected
  /\ \E p \in Peers : conn[p].seed > conn[Other(p)].seed /\ conn[p].event = "connected"

\* the messages p's connection can act on next
Inbox(p) == {msg \in wire \cup conn[p].held : msg.from # p /\ msg.index = conn[p].expect}

\* a connected peer has verified a genuine proof of the remote, lists the remote as a
\* member, and has been verified by the remote in turn
ConnectedOnlyIfBothVerified ==
  \A p \in Peers :
    conn[p].st = "connected" =>
      /\ conn[p].verified /\ conn[p].accepted
      /\ conn[Other(p)].secret = Other(p)
      /\ hasMember(state[p], Other(p))
      /\ conn[Other(p)].verified

\* acting on a proof whose signature is not the claimed member's sends REJECT_IDENTITY and
\* disconnects
FailedProofIsRejected ==
  \A p \in Peers : \A msg \in Inbox(p), seed \in Seeds :
    (/\ conn[p].st = "authenticating"
     /\ msg.type = "PROVE_IDENTITY" /\ msg.body.signedBy # msg.body.userName
     /\ act(p, msg, seed, MaxMerges))
    => /\ conn'[p].st = "disconnected"
       /\ \E m \in wire' \ wire : m.from = p /\ m.type = "REJECT_IDENTITY"

DisconnectedIsFinal ==
  \A p \in Peers : conn[p].st = "disconnected" => conn'[p].st = "disconnected"

\* C26: a connection is connected only after it has verified the remote's proof of identity
\* against the key of the claimed member (admitted first, if it came with an invitation) and
\* has been accepted by the remote; a proof that fails verification is answered with
\* REJECT_IDENTITY and the disconnected state, which is never left
C26_ConnectedOnlyAfterMutualProof ==
  /\ []ConnectedOnlyIfBothVerified
  /\ [][FailedProofIsRejected /\ DisconnectedIsFinal]_vars

\* a peer has rejected the proof of a remote that signs with a forged secret
C26_Witness ==
  \E p \in Peers :
    /\ conn[p].st = "disconnected" /\ conn[p].challenge # 0
    /\ conn[Other(p)].secret = "forged"
    /\ \E m \in wire : m.from = p /\ m.type = "REJECT_IDENTITY"

StopDisconnects == \A p \in Peers : stop(p) => conn'[p].st = "disconnected"

StopTwiceChangesNothing ==
  \A p \in Peers : (conn[p].st = "disconnected" /\ stop(p)) => UNCHANGED vars

\* a delivery to a stopped connection changes neither the connection nor the team and
\* puts nothing on the wire
StoppedRefusesDeliveries ==
  \A p \in Peers : \A msg \in wire, seed \in Seeds :
    (conn[p].st = "disconnected" /\ deliver(p, msg, seed, MaxMerges))
    => /\ UNCHANGED <<conn, minted, chain, state, last>>
       /\ wire' \subseteq wire

\* C30: stop() ends in disconnected whatever the state was, a second stop() changes
\* nothing, and a message delivered after stop changes no state and sends nothing
C30_StopIsFinalAndIdempotent ==
  [][StopDisconnects /\ StopTwiceChangesNothing /\ StoppedRefusesDeliveries]_vars

\* stopped after the remote had accepted it, and what the remote sent since has been
\* handed over without being acted on
C30_Witness ==
  \E p \in Peers :
    /\ conn[p].st = "disconnected" /\ conn[p].accepted
    /\ conn[Other(p)].st \in Synced
    /\ conn[Other(p)].out > conn[p].expect
    /\ \A m \in wire : m.from = p

\* every message a peer has sent and that is still on its way or held
InFlight == wire \cup UNION {conn[p].held : p \in Peers}

\* the messages of one sender carry different indices, all below the sender's next index
IndicesAreUnique ==
  \A m \in InFlight :
    /\ m.index < conn[m.from].out
    /\ \A n \in InFlight : (n.from = m.from /\ n.index = m.index) => n = m

\* what a step sends is numbered from the sender's next index on
IndicesIncrease ==
  \A m \in wire' \ wire : conn[m.from].out <= m.index /\ m.index < conn'[m.from].out

\* the indices acted on are 0, 1, 2, ...: in order, none twice, none skipped
ActedInOrder ==
  \A p \in Peers :
    /\ Len(conn[p].acted) = conn[p].expect
    /\ \A i \in DOMAIN conn[p].acted : conn[p].acted[i] = i - 1

\* a message delivered ahead of a missing index is not acted on: it is held if it is
\* within the window, else it stays with the sender and a resync is requested
AheadIsHeldOrRejected ==
  \A p \in Peers : \A msg \in wire, seed \in Seeds :
    (/\ conn[p].st \notin {"idle", "disconnected"} /\ msg.index > conn[p].expect
     /\ deliver(p, msg, seed, MaxMerges))
    => /\ conn'[p].acted = conn[p].acted
       /\ UNCHANGED <<minted, chain, state>>
       /\ wire' \subseteq wire
       /\ IF msg.index - conn[p].expect <= Window
          THEN msg \in conn'[p].held
          ELSE msg \in wire' /\ conn'[p].event = "resync"

\* C29: each side numbers what it sends with a strictly increasing index, and the receiver
\* acts in index order: a message ahead of a missing index is held within the window or
\* rejected with a resync request, and nothing is acted on twice, whatever order the
\* transport delivers in
C29_ActsInIndexOrder ==
  /\ [](IndicesAreUnique /\ ActedInOrder)
  /\ [][IndicesIncrease /\ AheadIsHeldOrRejected]_vars

\* a peer holds one message, has just rejected one further ahead, and still waits for
\* the one it has to act on first
C29_Witness ==
  \E p \in Peers :
    /\ conn[p].held # {} /\ conn[p].event = "resync"
    /\ \E m \in wire : m.from # p /\ m.index = conn[p].expect
    /\ \E m \in wire : m.from # p /\ m.index > conn[p].expect + Window

\* the links p held when its connection was started
HeldAtStart(p) ==
  IF conn[p].startHead = 0 THEN {}
  ELSE getPredecessors(chain[p], conn[p].startHead) \cup {conn[p].startHead}

\* no team method has been called on either side since its connection was started
NoChangeSinceStart ==
  \A p \in Peers : SignedIds(chain[p]) \subseteq UNION {HeldAtStart(q) : q \in Peers}

\* each chain replays without an error
BothValid == \A p \in Peers : updateState(chain[p]).ok

\* C27: when two members of the same team are both connected, each holds every link the
\* other held when its connection was started; if no team method was called since, both
\* hold the same graph, and if that graph replays, both hold the state it replays to
C27_ConnectedMeansConverged ==
  BothConnected =>
    /\ \A p \in Peers : HeldAtStart(p) \subseteq Ids(chain[Other(p)])
    /\ NoChangeSinceStart =>
         /\ chain["alice"] = chain["bob"]
         /\ BothValid => /\ state["alice"] = state["bob"]
                         /\ \A p \in Peers : Replays(chain[p], state[p])

\* both connected, after each had added a role the other had not seen when it started its
\* connection: both see both roles
C27_Witness ==
  /\ BothConnected /\ NoChangeSinceStart /\ BothValid
  /\ ~(HeldAtStart("alice") \subseteq HeldAtStart("bob"))
  /\ ~(HeldAtStart("bob") \subseteq HeldAtStart("alice"))
  /\ \A p \in Peers : hasRole(state[p], MANAGER) /\ hasRole(state[p], GUEST)

\* p holds a change that the other side has not got yet
Ahead(p) == ~(SignedIds(chain[p]) \subseteq Ids(chain[Other(p)]))

SameHead == getHead(chain["alice"]) = getHead(chain["bob"])

\* while both are connected, a change that p holds and the other side lacks gets there
ChangeArrives == \A p \in Peers : (BothConnected /\ Ahead(p)) ~> ~Ahead(p)

\* the step on which the other side gets the change of p merges it and emits updated;
\* if neither side then holds a change the other lacks, the two heads are the same
ArrivalMerges ==
  \A p \in Peers :
    (BothConnected /\ Ahead(p) /\ ~Ahead(p)')
      => /\ conn'[Other(p)].event = "updated"
         /\ ~Ahead(Other(p))' => SameHead'

\* once the founder has dispatched the change of SpecSteady, the two heads are never the
\* same again: every merge of the one side makes a merge link the other side lacks
HeadsStayApart == hasRole(state[Founder], MANAGER) => ~SameHead

C31_EveryConnectionEnds ==
  \A p \in Peers :
    (conn[p].st # "idle") ~> (conn[p].st \in {"connected", "disconnected"})

\* a connection whose peer never started has timed out
C31_Witness ==
  \E p \in Peers :
    /\ conn[p].st = "disconnected" /\ conn[p].event = "timeout"
    /\ conn[Other(p)].st = "idle" /\ conn[p].expect = 0

\* ---------------------------------------------------------------- claims on the resolver

\* the two branches that the merge link at the head of c joins, as getSequence hands them
\* to the resolver
BranchOf(c, i) ==
  getBranchSequence(c, "trivial",
                    getCommonPredecessor(c, c.links[c.head].body[1], c.links[c.head].body[2]),
                    c.links[c.head].body[i])

\* the resolver keeps each branch whole, puts the one whose first payload hashes lower
\* first, and returns the same for (a, b) as for (b, a)
SortsByFirstPayload(c, a, b, ab, ba) ==
  /\ ab.ok /\ ba.ok
  /\ ab.seq \in {a \o b, b \o a}
  /\ GraphPayloadHash(c.links[a[1]].payload) < GraphPayloadHash(c.links[b[1]].payload)
       => ab.seq = a \o b
  /\ GraphPayloadHash(c.links[a[1]].payload) > GraphPayloadHash(c.links[b[1]].payload)
       => ab.seq = b \o a
  /\ ab.seq = ba.seq

SymmetricOn(c, a, b) ==
  (a.ok /\ b.ok /\ a.seq # <<>> /\ b.seq # <<>>)
    => SortsByFirstPayload(c, a.seq, b.seq, trivialResolver(c, a.seq, b.seq),
                           trivialResolver(c, b.seq, a.seq))

\* C34: the default resolver returns the two branches concatenated whole, the order decided
\* only by the hash of the payload of each branch's first link, so that resolver(a, b) =
\* resolver(b, a) for any two non-empty branches
C34_DefaultResolverIsSymmetric ==
  \A p \in Peers :
    HeadJoinsBranches(chain[p]) => SymmetricOn(chain[p], BranchOf(chain[p], 1), BranchOf(chain[p], 2))

\* ---------------------------------------------------------------- claims on invitations

\* Team.hasInvitation(proof)
hasInvitation(p, id) == hasInvitationId(state[p], id)

\* the step is a successful invite on p: the id it returns is known from then on
Posts(p) ==
  /\ Appends(p) /\ last'.ok
  /\ minted'[Len(minted')].type = "POST_INVITATION"

Between(c, r, h) ==
  {r, h} \cup {n \in Ids(c) : isPredecessor(c, r, n) /\ isPredecessor(c, n, h)}

UpTo(c, h) == getPredecessors(c, h) \cup {h}

\* the sub-ranges of c: a sub-root with a head that it is, or precedes
SubRanges(c) == {rh \in Ids(c) \X Ids(c) : rh[1] = rh[2] \/ isPredecessor(c, rh[1], rh[2])}

OnlyBetweenEachOnce(c, r, h, s) ==
  s.ok => /\ Range(s.seq) \subseteq SignedIds(c) \cap Between(c, r, h)
          /\ \A i, j \in DOMAIN s.seq : s.seq[i] = s.seq[j] => i = j

\* h is a merge link whose common predecessor precedes r: nothing comes from the
\* branch that r is not on
OffBranchIsSilent(c, r, h, s) ==
  (s.ok /\ isMergeLink(c.links[h])
        /\ isPredecessor(c, getCommonPredecessor(c, c.links[h].body[1], c.links[h].body[2]), r))
    => \A i \in {1, 2} :
         LET off == c.links[h].body[i]
             our == c.links[h].body[3 - i]
         IN ~(r \in UpTo(c, off)) => Range(s.seq) \cap (UpTo(c, off) \ UpTo(c, our)) = {}

\* C35: for a sub-root r that is or precedes the head h, getSequence returns only
\* non-merge links lying between r and h, each once, and when the common predecessor
\* of a merge precedes r the branch without r contributes nothing
C35_SubRangeStaysBetween ==
  \A p \in Peers : HasChain(p) =>
    \A rh \in SubRanges(chain[p]) :
      /\ OnlyBetweenEachOnce(chain[p], rh[1], rh[2], getSequence(chain[p], "trivial", rh[1], rh[2]))
      /\ OffBranchIsSilent(chain[p], rh[1], rh[2], getSequence(chain[p], "trivial", rh[1], rh[2]))

\* C37: the team's state is the reduction of its own chain in every state, also after
\* a dispatch that the reducer has rejected: recomputing the state from the chain
\* succeeds and gives the state the team holds
C37_StateIsReductionOfChain ==
  \A p \in Peers : HasTeam(p) => Replays(chain[p], state[p])

\* C38: a Team.merge that fails (the merged chain does not validate, or its sequence
\* does not reduce) leaves the team's chain and state as they were before the call
C38_FailedMergeChangesNothing ==
  [][\A p, q \in Peers :
       (merge(p, q, MaxMerges) /\ ~last'.ok) => (chain' = chain /\ state' = state)]_vars

\* C39: getSequence returns a sequence for every graph that create, append and merge
\* build, also when one of the two merged heads precedes the other
C39_GetSequenceNeverFails ==
  \A p \in Peers : HasChain(p) => getSequenceDefault(chain[p]).ok

\* the lockboxes among `posted` that hold keys of the scope at the given generation
HoldingKeys(posted, scope, generation) ==
  SelectSeq(posted, LAMBDA lb : ScopeOf(lb.contents) = scope /\ lb.contents.generation = generation)

\* p takes the role away from u, who holds it and is not an admin
TakesRoleAway(p, u, r) ==
  /\ removeMemberRole(p, u, r) /\ last'.ok
  /\ memberHasRole(state[p], u, r) /\ ~memberIsAdmin(state[p], u)

\* C40: after removeMemberRole(u, r) for a member u who is not an admin the keys of r
\* are one generation on, and u's keyring opens none of the lockboxes posted with the
\* removal that hold the new keys of r
C40_RoleKeysRotateAwayFromMember ==
  [][\A p \in Peers, u \in Peers :
       TakesRoleAway(p, u, MANAGER)
         => /\ CurrentGeneration(state'[p], RoleScope(MANAGER))
                 = CurrentGeneration(state[p], RoleScope(MANAGER)) + 1
            /\ LockedOut(Keyring(state[p].lockboxes, {UserKeys(u)}),
                         HoldingKeys(chain'[p].links[getHead(chain'[p])].payload.lockboxes,
                                     RoleScope(MANAGER),
                                     CurrentGeneration(state'[p], RoleScope(MANAGER))))]_vars

\* C33: when a principal changes its own keys, the generation of its keys is exactly
\* one higher, the team keys are those of the next generation, which no lockbox held
\* before, and the principal's new keyset alone opens its way to the new team keys
NewTeamKeys(s) == KeyMeta("TEAM", "TEAM", CurrentGeneration(s, TEAM_SCOPE))

Holds(s, keyset) == \E i \in DOMAIN s.lockboxes : s.lockboxes[i].contents = keyset

C33_ChangeKeysRotatesTeamKeys ==
  [][\A p \in Peers :
       (changeKeys(p) /\ last'.ok)
         => /\ memberKeys(state'[p], p).generation = memberKeys(state[p], p).generation + 1
            /\ CurrentGeneration(state'[p], TEAM_SCOPE)
                 = CurrentGeneration(state[p], TEAM_SCOPE) + 1
            /\ ~Holds(state[p], NewTeamKeys(state'[p]))
            /\ NewTeamKeys(state'[p])
                 \in Keyring(state'[p].lockboxes, {memberKeys(state'[p], p)})]_vars

\* bob, one of two admins, has just changed his keys and reaches the team keys of
\* generation 1 through his keyset of generation 1
C33_Witness ==
  /\ HasTeam("bob") /\ last.ok
  /\ chain["bob"].links[getHead(chain["bob"])].type = "CHANGE_KEYS"
  /\ chain["bob"].links[getHead(chain["bob"])].user = "bob"
  /\ Len(state["bob"].members) = 2
  /\ memberKeys(state["bob"], "bob").generation = 1
  /\ KeyMeta("TEAM", "TEAM", 1) \in Keyring(state["bob"].lockboxes, {KeyMeta("MEMBER", "bob", 1)})

====
